---- MODULE Spec2Model ----
(***************************************************************************)
(* Model of the three concurrent lane-detection pipelines:                 *)
(*   "pthread"   : stage_one / stage_two / stage_three of                  *)
(*                 lane_detection_openmp.cpp (mutex + condition variable)  *)
(*   "openmp"    : parallel_processing of lane_detection_openmp.cpp        *)
(*   "openmp_v2" : parallel_processing of lane_detection_openmp_v2.cpp     *)
(* The work queues are the linked lists of the source: a heap of work      *)
(* nodes, head/tail pointers and a size counter.                           *)
(***************************************************************************)
EXTENDS Integers, Sequences, FiniteSets, TLC

\* ---------------------------------------------------------------- bounds
MaxM == 2          \* longest stream (number of non-empty frames)
MaxN == 2          \* largest threads_number
MaxNodes == 4      \* most nodes created when the queue functions are exercised alone
MaxId == 2         \* largest frame_number given to such a node
LongRun == 65400   \* frames already written when a long run is picked up
MaxFrames == 65600 \* most frames written in a long run
MaxLag == 1        \* saturation of the per-thread lag behind the team's single counter
LiveMaxM == 1      \* longest stream in the runs checked for termination
LiveMaxN == 2      \* largest threads_number in the runs checked for termination

\* contents of the k-th frame of the source: frames are told apart by their contents
Frame(k) == 10 + k
Variants == {"pthread", "openmp", "openmp_v2"}

NULL == 0          \* the null pointer / the empty cv::Mat
NoOwner == -1      \* a lock nobody holds

\* ---------------------------------------------------------------- state
VARIABLES
    variant,                 \* which pipeline runs
    stream,                  \* the frames the source will deliver, in order
    opened,                  \* capture.isOpened() when parallel_processing is called
    threads_number,
    capture,                 \* number of frames already read from the source
    heap,                    \* work nodes by address (1..Len(heap))
    input_head, input_tail, size_input_work_queue,
    output_head, output_tail, size_output_work_queue,
    nframes, current_frame,
    correctness,             \* v2: the checksum printed at exit (int)
    is_there_any_frame, is_there_any_work, finished,
    input_work_queue_lock, output_work_queue_lock,      \* pthread mutexes / omp locks of v2
    lock_capturar_frame, lock_da_fila_de_saida,         \* omp locks of parallel_processing (openmp)
    frame_to_process, frame_to_send,                    \* condition variables: threads waiting
    pc, node_aux, i,                                    \* per-thread position and locals
    single_lag,                                         \* openmp: lag behind the team's single counter
    mainpc,                                             \* main, then parallel_processing: region, drain, end
    \* history of the run (observations only, never read by the program)
    display,                 \* nodes passed to send_frame_to_display, in order
    processed,               \* per node: number of process_frame invocations
    taken,                   \* per node: number of removals from the input queue
    sentinels_taken,         \* per thread: number of sentinels it removed from the input queue
    took_after_sentinel,     \* threads that removed a node after having removed a sentinel
    source_reads,            \* number of capture >> image executions
    signals,                 \* number of pthread_cond_signal(&frame_to_process) calls
    stopped_taking,          \* workers that skipped block two because of the shared flag
    freed,                   \* nodes freed, in order
    precondition_violated,   \* a queue operation ran on an empty queue
    refilled                 \* queue exerciser: the input queue was emptied and filled again

inq == <<input_head, input_tail, size_input_work_queue>>
outq == <<output_head, output_tail, size_output_work_queue>>
qvars == <<heap, inq, outq>>
cfgvars == <<variant, stream, threads_number, opened>>
flagvars == <<is_there_any_frame, is_there_any_work, finished>>
lockvars == <<input_work_queue_lock, output_work_queue_lock,
              lock_capturar_frame, lock_da_fila_de_saida>>
condvars == <<frame_to_process, frame_to_send>>
takevars == <<taken, sentinels_taken, took_after_sentinel>>
outvars == <<display, correctness>>
histvars == <<outvars, processed, takevars, source_reads, signals,
              stopped_taking, freed, precondition_violated>>
vars == <<cfgvars, capture, qvars, nframes, current_frame, flagvars, lockvars,
          condvars, pc, node_aux, i, single_lag, mainpc, histvars, refilled>>

\* ---------------------------------------------------------------- helpers
Min(a, b) == IF a < b THEN a ELSE b

\* the threads of a run
Threads ==
    CASE variant = "pthread"   -> 0..(threads_number + 1)
      [] variant = "openmp"    -> 1..threads_number
      [] variant = "openmp_v2" -> 0..threads_number

Workers == 1..threads_number

\* variant: the processed image is not stored back into the node
process_frame_not_stored(frame) == frame

\* the external transform: a pure function on frame contents
process_frame(frame) == 0 - frame

\* lane_detection_seq.cpp: the statements applied to each frame between the read and
\* the write; they are the statements of process_frame
seq_transform(image) == 0 - image

\* lane_detection_seq.cpp: while(1) { capture >> image; if(image.empty()) break;
\* nframes++; transform; oVideoWriter.write(image); } -- the frames written
RECURSIVE sequential(_, _)
sequential(source, written) ==
    IF source = <<>> THEN written
    ELSE sequential(Tail(source), Append(written, seq_transform(Head(source))))

\* the largest and the smallest value of an int
INT_MAX == 2147483647
INT_MIN == 0 - INT_MAX - 1

\* variant: the addition leaves the checksum as it is
int_add_nothing(a, b) == a

\* a + b on int, for b >= 0. Signed overflow is undefined; a build either stops
\* the run there by a trap or lets the sum wrap round modulo 2^32, which is the
\* value given here (computed without leaving the int range).
int_add(a, b) ==
    IF a <= INT_MAX - b THEN a + b
    ELSE INT_MIN + (a - (INT_MAX - b) - 1)

\* capture >> image : the next frame of the stream, or the empty frame
NextFrame == IF capture < Len(stream) THEN stream[capture + 1] ELSE NULL

\* variant: a sentinel gets the id 0
work_node_sentinel_zero(frame, id, last) ==
    [frame |-> frame, frame_number |-> IF last THEN 0 ELSE id,
     is_the_last_node |-> last, next |-> NULL]

\* variant: every node gets the id 0
work_node_same_id(frame, id, last) ==
    [frame |-> frame, frame_number |-> 0, is_the_last_node |-> last, next |-> NULL]

\* variant: is_the_last_node is never set
work_node_never_last(frame, id, last) ==
    [frame |-> frame, frame_number |-> id, is_the_last_node |-> FALSE, next |-> NULL]

\* malloc + field initialisation of a work node
work_node(frame, id, last) ==
    [frame |-> frame, frame_number |-> id, is_the_last_node |-> last, next |-> NULL]

\* ---------------------------------------------------------------- queues
\* variant: the id of the second node is read when there is one
get_second_id_from_output_work_queue(h, head) ==
    IF h[head].next = NULL THEN h[head].frame_number ELSE h[h[head].next].frame_number

get_head_id_from_output_work_queue(h, head) == h[head].frame_number

\* variant: the branch is chosen by input_tail, not by size_input_work_queue
add_to_input_work_queue_by_tail(h, head, tail, size, n) ==
    IF tail = NULL
    THEN [heap |-> h, head |-> n, tail |-> n, size |-> size + 1]
    ELSE [heap |-> [h EXCEPT ![tail].next = n], head |-> head, tail |-> n,
          size |-> size + 1]

\* variant: the node is put in front of the head
add_to_input_work_queue_front(h, head, tail, size, n) ==
    IF size = 0
    THEN [heap |-> h, head |-> n, tail |-> n, size |-> size + 1]
    ELSE [heap |-> [h EXCEPT ![n].next = head], head |-> n, tail |-> tail,
          size |-> size + 1]

add_to_input_work_queue(h, head, tail, size, n) ==
    IF size = 0
    THEN [heap |-> h, head |-> n, tail |-> n, size |-> size + 1]
    ELSE [heap |-> [h EXCEPT ![tail].next = n], head |-> head, tail |-> n,
          size |-> size + 1]

\* variant: the scan stops at the first node
ScanOutput_first(h, current_node, node_aux_id) == current_node

\* the node after which the scan of add_to_output_work_queue stops
RECURSIVE ScanOutput(_, _, _)
ScanOutput(h, current_node, node_aux_id) ==
    IF h[current_node].next = NULL THEN current_node
    ELSE IF node_aux_id <= h[h[current_node].next].frame_number THEN current_node
    ELSE ScanOutput(h, h[current_node].next, node_aux_id)

\* variant: every node is inserted in front of the head, whatever its id
add_to_output_work_queue_front(h, head, tail, size, n) ==
    IF size = 0
    THEN [heap |-> h, head |-> n, tail |-> n, size |-> size + 1]
    ELSE [heap |-> [h EXCEPT ![n].next = head], head |-> n, tail |-> tail,
          size |-> size + 1]

add_to_output_work_queue(h, head, tail, size, n) ==
    IF size = 0
    THEN [heap |-> h, head |-> n, tail |-> n, size |-> size + 1]
    ELSE IF h[n].frame_number <= h[head].frame_number
    THEN [heap |-> [h EXCEPT ![n].next = head], head |-> n, tail |-> tail,
          size |-> size + 1]
    ELSE LET c == ScanOutput(h, head, h[n].frame_number) IN
         [heap |-> [h EXCEPT ![n].next = h[c].next, ![c].next = n],
          head |-> head,
          tail |-> IF h[c].next = NULL THEN n ELSE tail,
          size |-> size + 1]

\* variant: input_head is not advanced
remove_from_input_work_queue_stale(h, head, size) ==
    [heap |-> [h EXCEPT ![head].next = NULL], head |-> head,
     node |-> head, size |-> size - 1]

remove_from_input_work_queue(h, head, size) ==
    [heap |-> [h EXCEPT ![head].next = NULL], head |-> h[head].next,
     node |-> head, size |-> size - 1]

\* variant: size_output_work_queue is not decremented
remove_from_output_work_queue_keep_size(h, head, size) ==
    [heap |-> [h EXCEPT ![head].next = NULL], head |-> h[head].next,
     node |-> head, size |-> size]

remove_from_output_work_queue(h, head, size) ==
    [heap |-> [h EXCEPT ![head].next = NULL], head |-> h[head].next,
     node |-> head, size |-> size - 1]

\* the nodes reachable from a head pointer, in list order
RECURSIVE Chain(_, _, _)
Chain(h, p, fuel) ==
    IF p = NULL \/ fuel = 0 THEN <<>>
    ELSE <<p>> \o Chain(h, h[p].next, fuel - 1)

InputQueue == Chain(heap, input_head, Len(heap))
OutputQueue == Chain(heap, output_head, Len(heap))

\* variant: the signal is not sent
pthread_cond_signal_lost(waiting) == {waiting}

\* pthread_cond_signal: wakes one waiting thread if there is one
pthread_cond_signal(waiting) ==
    IF waiting = {} THEN {waiting} ELSE {waiting \ {t} : t \in waiting}

\* variant: the head is taken without comparing its id with current_frame
is_frame_to_send_any(h, head, size, expected) == size > 0

\* emit blocks: if(size_output_work_queue > 0) if(head id == current_frame)
is_frame_to_send(h, head, size, expected) ==
    size > 0 /\ get_head_id_from_output_work_queue(h, head) = expected

\* variant: the loop runs one round short
more_sentinels_short(k, n) == k < n - 1

\* stage_one: for(int i = 0; i < threads_number; i++)
more_sentinels(k, n) == k < n

\* variant: no break after a sentinel
s2_next_nobreak(last) == "s2_lock"

\* stage_two: break after forwarding a sentinel, loop again after a payload node
s2_next(last) == IF last THEN "done" ELSE "s2_lock"

\* variant: the flag is cleared after any node
w_next_early(last) == "w_nowork"

\* openmp_v2 block two: is_there_any_work = false only after forwarding the sentinel
w_next(last) == IF last THEN "w_nowork" ELSE "w_loop"

\* variant: is_there_any_frame is never cleared
frames_left_always(last, flag) == flag

\* openmp_v2 block one: is_there_any_frame = false after the sentinel was queued
frames_left(last, flag) == IF last THEN FALSE ELSE flag

\* ---------------------------------------------------------------- initial state
\* the state main has built when it is about to open the stream; counts is the set
\* of values atoi(argv[2]) may have
InitArgs(mmax, counts) ==
    /\ variant \in Variants
    /\ stream \in {[k \in 1..m |-> Frame(k)] : m \in 0..mmax}
    /\ opened \in BOOLEAN
    /\ ~opened => stream = <<>>          \* a capture that is not open delivers empty frames
    /\ threads_number \in counts
    /\ capture = 0
    /\ heap = <<>>
    /\ input_head = NULL /\ input_tail = NULL /\ size_input_work_queue = 0
    /\ output_head = NULL /\ output_tail = NULL /\ size_output_work_queue = 0
    /\ nframes = (IF variant = "openmp_v2" THEN 1 ELSE 0)
    /\ current_frame = (IF variant = "openmp_v2" THEN 1 ELSE 0)
    /\ is_there_any_frame = TRUE /\ is_there_any_work = TRUE /\ finished = FALSE
    /\ input_work_queue_lock = NoOwner /\ output_work_queue_lock = NoOwner
    /\ lock_capturar_frame = NoOwner /\ lock_da_fila_de_saida = NoOwner
    /\ frame_to_process = {} /\ frame_to_send = {}
    /\ pc = [t \in Threads |-> "unborn"]
    /\ node_aux = [t \in Threads |-> NULL]
    /\ i = 0
    /\ single_lag = [t \in Threads |-> 0]
    /\ mainpc = "main"
    /\ display = <<>>
    /\ correctness = 0
    /\ processed = <<>>
    /\ taken = <<>>
    /\ sentinels_taken = [t \in Threads |-> 0]
    /\ took_after_sentinel = {}
    /\ source_reads = 0
    /\ signals = 0
    /\ stopped_taking = {}
    /\ freed = <<>>
    /\ precondition_violated = FALSE
    /\ refilled = FALSE

InitFor(mmax, nmax) == InitArgs(mmax, 1..nmax)

Init == InitFor(MaxM, MaxN)

\* main: capture.open(arg), a second attempt as a camera, the writer, then
\* parallel_processing() whatever isOpened() and threads_number are; the threads start
main ==
    /\ mainpc = "main"
    /\ mainpc' = "parallel"
    /\ pc' = [t \in Threads |->
               CASE variant = "pthread" ->
                      (IF t = 0 THEN "s1_read"
                       ELSE IF t = threads_number + 1 THEN "s3_lock" ELSE "s2_lock")
                 [] variant = "openmp" -> "o_loop"
                 [] variant = "openmp_v2" -> (IF t = 0 THEN "m_loop" ELSE "w_loop")]
    /\ UNCHANGED <<cfgvars, refilled, capture, qvars, nframes, current_frame, flagvars, lockvars,
                   condvars, node_aux, i, single_lag, histvars>>

\* ---------------------------------------------------------------- shared steps
\* send_frame_to_display: write the frame, free the frame and the node
send_frame_to_display(n) ==
    /\ display' = Append(display, [frame_number |-> heap[n].frame_number,
                                   frame |-> heap[n].frame])
    /\ correctness' = (IF variant = "openmp_v2"
                      THEN int_add(correctness, heap[n].frame_number)
                      ELSE correctness)
    /\ freed' = Append(freed, n)

\* allocation of a node held in node_aux of thread t
Alloc(t, nd) ==
    /\ heap' = Append(heap, nd)
    /\ processed' = Append(processed, 0)
    /\ taken' = Append(taken, 0)
    /\ node_aux' = [node_aux EXCEPT ![t] = Len(heap) + 1]

\* bookkeeping of a removal of node n from the input queue by thread t
Took(t, n) ==
    /\ taken' = [taken EXCEPT ![n] = @ + 1]
    /\ sentinels_taken' = [sentinels_taken EXCEPT
                              ![t] = IF heap[n].is_the_last_node THEN @ + 1 ELSE @]
    /\ took_after_sentinel' = IF sentinels_taken[t] > 0
                              THEN took_after_sentinel \cup {t}
                              ELSE took_after_sentinel

Goto(t, l) == pc' = [pc EXCEPT ![t] = l]

\* ---------------------------------------------------------------- pthread: stage_one
\* capture >> image; nframes++; then either start the sentinel loop or build a payload node
s1_read ==
    /\ variant = "pthread" /\ pc[0] = "s1_read"
    /\ source_reads' = source_reads + 1
    /\ nframes' = nframes + 1
    /\ IF NextFrame = NULL
       THEN /\ i' = 0
            /\ Goto(0, "s1_term")
            /\ UNCHANGED <<capture, heap, processed, taken, node_aux>>
       ELSE /\ capture' = capture + 1
            /\ Alloc(0, work_node(NextFrame, nframes', FALSE))
            /\ Goto(0, "s1_lock")
            /\ i' = i
    /\ UNCHANGED <<cfgvars, refilled, inq, outq, current_frame, flagvars, lockvars, condvars,
                   single_lag, mainpc, outvars, sentinels_taken, took_after_sentinel,
                   signals, stopped_taking, freed, precondition_violated>>

\* for(int i = 0; i < threads_number; i++) : build one sentinel, or leave the loop and return
s1_term ==
    /\ variant = "pthread" /\ pc[0] = "s1_term"
    /\ IF more_sentinels(i, threads_number)
       THEN /\ Alloc(0, work_node(NULL, nframes, TRUE))
            /\ Goto(0, "s1_lock")
       ELSE /\ Goto(0, "done")
            /\ UNCHANGED <<heap, processed, taken, node_aux>>
    /\ UNCHANGED <<cfgvars, refilled, capture, inq, outq, nframes, current_frame, flagvars,
                   lockvars, condvars, i, single_lag, mainpc, outvars, sentinels_taken,
                   took_after_sentinel, source_reads, signals, stopped_taking, freed,
                   precondition_violated>>

\* pthread_mutex_lock(&input_work_queue_lock)
s1_lock ==
    /\ variant = "pthread" /\ pc[0] = "s1_lock"
    /\ input_work_queue_lock = NoOwner
    /\ input_work_queue_lock' = 0
    /\ Goto(0, "s1_add")
    /\ UNCHANGED <<cfgvars, refilled, capture, qvars, nframes, current_frame, flagvars,
                   output_work_queue_lock, lock_capturar_frame, lock_da_fila_de_saida,
                   condvars, node_aux, i, single_lag, mainpc, histvars>>

\* add_to_input_work_queue; pthread_cond_signal; pthread_mutex_unlock
s1_add ==
    /\ variant = "pthread" /\ pc[0] = "s1_add"
    /\ LET r == add_to_input_work_queue(heap, input_head, input_tail,
                                        size_input_work_queue, node_aux[0]) IN
       /\ heap' = r.heap
       /\ input_head' = r.head
       /\ input_tail' = r.tail
       /\ size_input_work_queue' = r.size
    /\ frame_to_process' \in pthread_cond_signal(frame_to_process)
    /\ signals' = signals + 1
    /\ input_work_queue_lock' = NoOwner
    /\ IF heap[node_aux[0]].is_the_last_node
       THEN i' = i + 1 /\ Goto(0, "s1_term")
       ELSE i' = i /\ Goto(0, "s1_read")
    /\ node_aux' = [node_aux EXCEPT ![0] = NULL]
    /\ UNCHANGED <<cfgvars, refilled, capture, outq, nframes, current_frame, flagvars,
                   output_work_queue_lock, lock_capturar_frame, lock_da_fila_de_saida,
                   frame_to_send, single_lag, mainpc, outvars, processed, takevars,
                   source_reads, stopped_taking, freed, precondition_violated>>

stage_one == s1_read \/ s1_term \/ s1_lock \/ s1_add

\* ---------------------------------------------------------------- pthread: stage_two
\* pthread_mutex_lock(&input_work_queue_lock), at the loop head or when woken from the wait
s2_lock(t) ==
    /\ variant = "pthread" /\ t \in Workers /\ pc[t] = "s2_lock"
    /\ t \notin frame_to_process
    /\ input_work_queue_lock = NoOwner
    /\ input_work_queue_lock' = t
    /\ Goto(t, "s2_check")
    /\ UNCHANGED <<cfgvars, refilled, capture, qvars, nframes, current_frame, flagvars,
                   output_work_queue_lock, lock_capturar_frame, lock_da_fila_de_saida,
                   condvars, node_aux, i, single_lag, mainpc, histvars>>

\* while(size_input_work_queue == 0) pthread_cond_wait(...); else remove and unlock
s2_check(t) ==
    /\ variant = "pthread" /\ t \in Workers /\ pc[t] = "s2_check"
    /\ IF size_input_work_queue = 0
       THEN /\ frame_to_process' = frame_to_process \cup {t}
            /\ input_work_queue_lock' = NoOwner
            /\ Goto(t, "s2_lock")
            /\ UNCHANGED <<qvars, node_aux, takevars>>
       ELSE /\ LET r == remove_from_input_work_queue(heap, input_head,
                                                     size_input_work_queue) IN
               /\ heap' = r.heap
               /\ input_head' = r.head
               /\ size_input_work_queue' = r.size
               /\ node_aux' = [node_aux EXCEPT ![t] = r.node]
               /\ Took(t, r.node)
            /\ input_work_queue_lock' = NoOwner
            /\ Goto(t, "s2_branch")
            /\ UNCHANGED <<input_tail, outq, frame_to_process>>
    /\ UNCHANGED <<cfgvars, refilled, capture, nframes, current_frame, flagvars,
                   output_work_queue_lock, lock_capturar_frame, lock_da_fila_de_saida,
                   frame_to_send, i, single_lag, mainpc, outvars, processed,
                   source_reads, signals, stopped_taking, freed, precondition_violated>>

\* if(is_the_last_node) forward unchanged, else process_frame(&node_aux)
s2_branch(t) ==
    /\ variant = "pthread" /\ t \in Workers /\ pc[t] = "s2_branch"
    /\ IF heap[node_aux[t]].is_the_last_node
       THEN UNCHANGED <<heap, processed>>
       ELSE /\ heap' = [heap EXCEPT ![node_aux[t]].frame = process_frame(@)]
            /\ processed' = [processed EXCEPT ![node_aux[t]] = @ + 1]
    /\ Goto(t, "s2_olock")
    /\ UNCHANGED <<cfgvars, refilled, capture, inq, outq, nframes, current_frame, flagvars,
                   lockvars, condvars, node_aux, i, single_lag, mainpc, outvars,
                   takevars, source_reads, signals, stopped_taking, freed,
                   precondition_violated>>

\* pthread_mutex_lock(&output_work_queue_lock)
s2_olock(t) ==
    /\ variant = "pthread" /\ t \in Workers /\ pc[t] = "s2_olock"
    /\ output_work_queue_lock = NoOwner
    /\ output_work_queue_lock' = t
    /\ Goto(t, "s2_oadd")
    /\ UNCHANGED <<cfgvars, refilled, capture, qvars, nframes, current_frame, flagvars,
                   input_work_queue_lock, lock_capturar_frame, lock_da_fila_de_saida,
                   condvars, node_aux, i, single_lag, mainpc, histvars>>

\* add_to_output_work_queue; pthread_cond_signal(&frame_to_send); unlock; break on a sentinel
s2_oadd(t) ==
    /\ variant = "pthread" /\ t \in Workers /\ pc[t] = "s2_oadd"
    /\ LET r == add_to_output_work_queue(heap, output_head, output_tail,
                                         size_output_work_queue, node_aux[t]) IN
       /\ heap' = r.heap
       /\ output_head' = r.head
       /\ output_tail' = r.tail
       /\ size_output_work_queue' = r.size
    /\ frame_to_send' \in pthread_cond_signal(frame_to_send)
    /\ output_work_queue_lock' = NoOwner
    /\ Goto(t, s2_next(heap[node_aux[t]].is_the_last_node))
    /\ node_aux' = [node_aux EXCEPT ![t] = NULL]
    /\ UNCHANGED <<cfgvars, refilled, capture, inq, nframes, current_frame, flagvars,
                   input_work_queue_lock, lock_capturar_frame, lock_da_fila_de_saida,
                   frame_to_process, i, single_lag, mainpc, histvars>>

stage_two(t) == s2_lock(t) \/ s2_check(t) \/ s2_branch(t) \/ s2_olock(t) \/ s2_oadd(t)

\* ---------------------------------------------------------------- pthread: stage_three
\* current_frame++ ; pthread_mutex_lock(&output_work_queue_lock)
s3_lock ==
    /\ variant = "pthread" /\ pc[threads_number + 1] = "s3_lock"
    /\ output_work_queue_lock = NoOwner
    /\ output_work_queue_lock' = threads_number + 1
    /\ current_frame' = current_frame + 1
    /\ Goto(threads_number + 1, "s3_check1")
    /\ UNCHANGED <<cfgvars, refilled, capture, qvars, nframes, flagvars,
                   input_work_queue_lock, lock_capturar_frame, lock_da_fila_de_saida,
                   condvars, node_aux, i, single_lag, mainpc, histvars>>

\* variant: the woken thread goes on without re-acquiring the mutex
s3_wake_unlocked(l) ==
    /\ variant = "pthread" /\ l \in {"s3_check1", "s3_check2"}
    /\ pc[threads_number + 1] = (IF l = "s3_check1" THEN "s3_wait1" ELSE "s3_wait2")
    /\ (threads_number + 1) \notin frame_to_send
    /\ Goto(threads_number + 1, l)
    /\ UNCHANGED <<cfgvars, refilled, capture, qvars, nframes, current_frame, flagvars,
                   lockvars, condvars, node_aux, i, single_lag, mainpc, histvars>>

\* re-acquire the mutex when woken from one of the two waits
s3_wake(l) ==
    /\ variant = "pthread" /\ l \in {"s3_check1", "s3_check2"}
    /\ pc[threads_number + 1] = (IF l = "s3_check1" THEN "s3_wait1" ELSE "s3_wait2")
    /\ (threads_number + 1) \notin frame_to_send
    /\ output_work_queue_lock = NoOwner
    /\ output_work_queue_lock' = threads_number + 1
    /\ Goto(threads_number + 1, l)
    /\ UNCHANGED <<cfgvars, refilled, capture, qvars, nframes, current_frame, flagvars,
                   input_work_queue_lock, lock_capturar_frame, lock_da_fila_de_saida,
                   condvars, node_aux, i, single_lag, mainpc, histvars>>

\* while(size_output_work_queue == 0) pthread_cond_wait(&frame_to_send, ...)
s3_check1 ==
    /\ variant = "pthread" /\ pc[threads_number + 1] = "s3_check1"
    /\ IF size_output_work_queue = 0
       THEN /\ frame_to_send' = frame_to_send \cup {threads_number + 1}
            /\ output_work_queue_lock' = NoOwner
            /\ Goto(threads_number + 1, "s3_wait1")
       ELSE /\ Goto(threads_number + 1, "s3_check2")
            /\ UNCHANGED <<frame_to_send, output_work_queue_lock>>
    /\ UNCHANGED <<cfgvars, refilled, capture, qvars, nframes, current_frame, flagvars,
                   input_work_queue_lock, lock_capturar_frame, lock_da_fila_de_saida,
                   frame_to_process, node_aux, i, single_lag, mainpc, histvars>>

\* while(get_head_id_from_output_work_queue() != current_frame) wait; then remove and unlock
s3_check2 ==
    /\ variant = "pthread" /\ pc[threads_number + 1] = "s3_check2"
    /\ IF output_head = NULL
       THEN /\ precondition_violated' = TRUE
            /\ Goto(threads_number + 1, "crashed")
            /\ UNCHANGED <<qvars, frame_to_send, output_work_queue_lock, node_aux>>
       ELSE IF get_head_id_from_output_work_queue(heap, output_head) # current_frame
       THEN /\ frame_to_send' = frame_to_send \cup {threads_number + 1}
            /\ output_work_queue_lock' = NoOwner
            /\ Goto(threads_number + 1, "s3_wait2")
            /\ UNCHANGED <<qvars, node_aux, precondition_violated>>
       ELSE /\ LET r == remove_from_output_work_queue(heap, output_head,
                                                      size_output_work_queue) IN
               /\ heap' = r.heap
               /\ output_head' = r.head
               /\ size_output_work_queue' = r.size
               /\ node_aux' = [node_aux EXCEPT ![threads_number + 1] = r.node]
            /\ output_work_queue_lock' = NoOwner
            /\ Goto(threads_number + 1, "s3_branch")
            /\ UNCHANGED <<inq, output_tail, frame_to_send, precondition_violated>>
    /\ UNCHANGED <<cfgvars, refilled, capture, nframes, current_frame, flagvars,
                   input_work_queue_lock, lock_capturar_frame, lock_da_fila_de_saida,
                   frame_to_process, i, single_lag, mainpc, outvars, processed, takevars,
                   source_reads, signals, stopped_taking, freed>>

\* if(is_the_last_node) break; else send_frame_to_display(&node_aux)
s3_branch ==
    /\ variant = "pthread" /\ pc[threads_number + 1] = "s3_branch"
    /\ IF heap[node_aux[threads_number + 1]].is_the_last_node
       THEN /\ Goto(threads_number + 1, "done")
            /\ UNCHANGED <<outvars, freed, node_aux>>
       ELSE /\ send_frame_to_display(node_aux[threads_number + 1])
            /\ node_aux' = [node_aux EXCEPT ![threads_number + 1] = NULL]
            /\ Goto(threads_number + 1, "s3_lock")
    /\ UNCHANGED <<cfgvars, refilled, capture, qvars, nframes, current_frame, flagvars, lockvars,
                   condvars, i, single_lag, mainpc, processed, takevars, source_reads,
                   signals, stopped_taking, precondition_violated>>

stage_three == s3_lock \/ (\E l \in {"s3_check1", "s3_check2"} : s3_wake(l))
               \/ s3_check1 \/ s3_check2 \/ s3_branch

\* pthread_cond_wait may return without a signal (POSIX spurious wake-up)
SpuriousWakeup ==
    /\ variant = "pthread"
    /\ \/ \E t \in frame_to_process :
            /\ frame_to_process' = frame_to_process \ {t}
            /\ UNCHANGED frame_to_send
       \/ \E t \in frame_to_send :
            /\ frame_to_send' = frame_to_send \ {t}
            /\ UNCHANGED frame_to_process
    /\ UNCHANGED <<cfgvars, refilled, capture, qvars, nframes, current_frame, flagvars, lockvars,
                   pc, node_aux, i, single_lag, mainpc, histvars>>

\* ---------------------------------------------------------------- emit block (both OpenMP variants)
\* if(size > 0 && head id == current_frame) remove; unset the output lock
EmitCheck(t, found, notfound) ==
    /\ IF is_frame_to_send(heap, output_head, size_output_work_queue, current_frame)
       THEN /\ LET r == remove_from_output_work_queue(heap, output_head,
                                                      size_output_work_queue) IN
               /\ heap' = r.heap
               /\ output_head' = r.head
               /\ size_output_work_queue' = r.size
               /\ node_aux' = [node_aux EXCEPT ![t] = r.node]
            /\ Goto(t, found)
            /\ UNCHANGED <<inq, output_tail>>
       ELSE /\ Goto(t, notfound)
            /\ UNCHANGED <<qvars, node_aux>>
    /\ UNCHANGED <<cfgvars, refilled, capture, nframes, current_frame, flagvars, condvars, i,
                   single_lag, mainpc, histvars>>

\* variant: the node is written to the sink whatever is_the_last_node says
EmitSend_any_node(t, sent, after) ==
    /\ send_frame_to_display(node_aux[t])
    /\ Goto(t, sent)
    /\ node_aux' = [node_aux EXCEPT ![t] = NULL]
    /\ UNCHANGED <<cfgvars, refilled, capture, qvars, nframes, current_frame, flagvars,
                   lockvars, condvars, i, single_lag, mainpc, processed, takevars,
                   source_reads, signals, stopped_taking, precondition_violated>>

\* if(is_the_last_node) finished = true; else send_frame_to_display(&node_aux)
EmitSend(t, sent, after) ==
    /\ IF heap[node_aux[t]].is_the_last_node
       THEN /\ finished' = TRUE
            /\ Goto(t, after)
            /\ UNCHANGED <<outvars, freed>>
       ELSE /\ send_frame_to_display(node_aux[t])
            /\ Goto(t, sent)
            /\ UNCHANGED finished
    /\ node_aux' = [node_aux EXCEPT ![t] = NULL]
    /\ UNCHANGED <<cfgvars, refilled, capture, qvars, nframes, current_frame, is_there_any_frame,
                   is_there_any_work, lockvars, condvars, i, single_lag, mainpc,
                   processed, takevars, source_reads, signals, stopped_taking,
                   precondition_violated>>

\* variant: current_frame is left as it is after the write
EmitAdvance_skip(t, after) ==
    /\ Goto(t, after)
    /\ UNCHANGED <<cfgvars, refilled, capture, qvars, nframes, current_frame, flagvars,
                   lockvars, condvars, node_aux, i, single_lag, mainpc, histvars>>

\* current_frame++
EmitAdvance(t, after) ==
    /\ current_frame' = current_frame + 1
    /\ Goto(t, after)
    /\ UNCHANGED <<cfgvars, refilled, capture, qvars, nframes, flagvars, lockvars, condvars,
                   node_aux, i, single_lag, mainpc, histvars>>

\* ---------------------------------------------------------------- openmp: parallel_processing
\* while(finished == false)
o_loop(t) ==
    /\ variant = "openmp" /\ t \in Threads /\ pc[t] = "o_loop"
    /\ Goto(t, IF finished THEN "done" ELSE "o_single")
    /\ UNCHANGED <<cfgvars, refilled, capture, qvars, nframes, current_frame, flagvars, lockvars,
                   condvars, node_aux, i, single_lag, mainpc, histvars>>

\* #pragma omp single nowait : the thread that reaches an instance first executes it
o_single(t) ==
    /\ variant = "openmp" /\ t \in Threads /\ pc[t] = "o_single"
    /\ IF single_lag[t] = 0
       THEN /\ single_lag' = [u \in Threads |->
                                IF u = t THEN 0 ELSE Min(single_lag[u] + 1, MaxLag)]
            /\ Goto(t, "o_elock")
       ELSE /\ single_lag' = [single_lag EXCEPT ![t] = @ - 1]
            /\ Goto(t, "o_work")
    /\ UNCHANGED <<cfgvars, refilled, capture, qvars, nframes, current_frame, flagvars, lockvars,
                   condvars, node_aux, i, mainpc, histvars>>

\* omp_set_lock(&lock_da_fila_de_saida), in the emit block or before the insertion
o_setlock_saida(t) ==
    /\ variant = "openmp" /\ t \in Threads /\ pc[t] \in {"o_elock", "o_olock"}
    /\ lock_da_fila_de_saida = NoOwner
    /\ lock_da_fila_de_saida' = t
    /\ Goto(t, IF pc[t] = "o_elock" THEN "o_echeck" ELSE "o_oadd")
    /\ UNCHANGED <<cfgvars, refilled, capture, qvars, nframes, current_frame, flagvars,
                   input_work_queue_lock, output_work_queue_lock, lock_capturar_frame,
                   condvars, node_aux, i, single_lag, mainpc, histvars>>

\* variant: the emit block leaves lock_da_fila_de_saida set
o_echeck_keep_lock(t) ==
    /\ variant = "openmp" /\ t \in Threads /\ pc[t] = "o_echeck"
    /\ EmitCheck(t, "o_esend", "o_work")
    /\ UNCHANGED lockvars

o_echeck(t) ==
    /\ variant = "openmp" /\ t \in Threads /\ pc[t] = "o_echeck"
    /\ lock_da_fila_de_saida' = NoOwner
    /\ EmitCheck(t, "o_esend", "o_work")
    /\ UNCHANGED <<input_work_queue_lock, output_work_queue_lock, lock_capturar_frame>>

o_esend(t) ==
    /\ variant = "openmp" /\ t \in Threads /\ pc[t] = "o_esend"
    /\ EmitSend(t, "o_einc", "o_work")

o_einc(t) ==
    /\ variant = "openmp" /\ t \in Threads /\ pc[t] = "o_einc"
    /\ EmitAdvance(t, "o_work")

\* if(is_there_any_work == true)
o_work(t) ==
    /\ variant = "openmp" /\ t \in Threads /\ pc[t] = "o_work"
    /\ Goto(t, IF is_there_any_work THEN "o_clock" ELSE "o_loop")
    /\ UNCHANGED <<cfgvars, refilled, capture, qvars, nframes, current_frame, flagvars, lockvars,
                   condvars, node_aux, i, single_lag, mainpc, histvars>>

\* variant: the capture section is entered without taking lock_capturar_frame
o_clock_unlocked(t) ==
    /\ variant = "openmp" /\ t \in Threads /\ pc[t] = "o_clock"
    /\ Goto(t, "o_capture")
    /\ UNCHANGED <<cfgvars, refilled, capture, qvars, nframes, current_frame, flagvars,
                   lockvars, condvars, node_aux, i, single_lag, mainpc, histvars>>

\* omp_set_lock(&lock_capturar_frame)
o_clock(t) ==
    /\ variant = "openmp" /\ t \in Threads /\ pc[t] = "o_clock"
    /\ lock_capturar_frame = NoOwner
    /\ lock_capturar_frame' = t
    /\ Goto(t, "o_capture")
    /\ UNCHANGED <<cfgvars, refilled, capture, qvars, nframes, current_frame, flagvars,
                   input_work_queue_lock, output_work_queue_lock, lock_da_fila_de_saida,
                   condvars, node_aux, i, single_lag, mainpc, histvars>>

\* capture >> image; id_of_my_frame = nframes; nframes++; unset lock; build the node;
\* a payload node is processed (process_frame) before it is inserted
o_capture(t) ==
    /\ variant = "openmp" /\ t \in Threads /\ pc[t] = "o_capture"
    /\ source_reads' = source_reads + 1
    /\ nframes' = nframes + 1
    /\ lock_capturar_frame' = NoOwner
    /\ heap' = Append(heap, IF NextFrame = NULL
                            THEN work_node(NULL, nframes, TRUE)
                            ELSE work_node(process_frame(NextFrame), nframes, FALSE))
    /\ processed' = Append(processed, IF NextFrame = NULL THEN 0 ELSE 1)
    /\ taken' = Append(taken, 0)
    /\ node_aux' = [node_aux EXCEPT ![t] = Len(heap) + 1]
    /\ capture' = (IF NextFrame = NULL THEN capture ELSE capture + 1)
    /\ Goto(t, "o_olock")
    /\ UNCHANGED <<cfgvars, refilled, inq, outq, current_frame, flagvars,
                   input_work_queue_lock, output_work_queue_lock, lock_da_fila_de_saida,
                   condvars, i, single_lag, mainpc, outvars, sentinels_taken,
                   took_after_sentinel, signals, stopped_taking, freed,
                   precondition_violated>>

\* add_to_output_work_queue; omp_unset_lock
o_oadd(t) ==
    /\ variant = "openmp" /\ t \in Threads /\ pc[t] = "o_oadd"
    /\ LET r == add_to_output_work_queue(heap, output_head, output_tail,
                                         size_output_work_queue, node_aux[t]) IN
       /\ heap' = r.heap
       /\ output_head' = r.head
       /\ output_tail' = r.tail
       /\ size_output_work_queue' = r.size
    /\ lock_da_fila_de_saida' = NoOwner
    /\ Goto(t, IF heap[node_aux[t]].is_the_last_node THEN "o_nowork" ELSE "o_loop")
    /\ node_aux' = [node_aux EXCEPT ![t] = NULL]
    /\ UNCHANGED <<cfgvars, refilled, capture, inq, nframes, current_frame, flagvars,
                   input_work_queue_lock, output_work_queue_lock, lock_capturar_frame,
                   condvars, i, single_lag, mainpc, histvars>>

\* is_there_any_work = false
o_nowork(t) ==
    /\ variant = "openmp" /\ t \in Threads /\ pc[t] = "o_nowork"
    /\ is_there_any_work' = FALSE
    /\ Goto(t, "o_loop")
    /\ UNCHANGED <<cfgvars, refilled, capture, qvars, nframes, current_frame, is_there_any_frame,
                   finished, lockvars, condvars, node_aux, i, single_lag, mainpc,
                   histvars>>

openmp_thread(t) ==
    \/ o_loop(t) \/ o_single(t) \/ o_setlock_saida(t) \/ o_echeck(t) \/ o_esend(t)
    \/ o_einc(t) \/ o_work(t) \/ o_clock(t) \/ o_capture(t) \/ o_oadd(t) \/ o_nowork(t)

\* ---------------------------------------------------------------- openmp_v2: master thread
\* while(finished == false)
m_loop ==
    /\ variant = "openmp_v2" /\ pc[0] = "m_loop"
    /\ Goto(0, IF finished THEN "done" ELSE "m_ingest")
    /\ UNCHANGED <<cfgvars, refilled, capture, qvars, nframes, current_frame, flagvars, lockvars,
                   condvars, node_aux, i, single_lag, mainpc, histvars>>

\* block one: if(is_there_any_frame) { capture >> image; id = nframes; nframes++; build node }
m_ingest ==
    /\ variant = "openmp_v2" /\ pc[0] = "m_ingest"
    /\ IF is_there_any_frame
       THEN /\ source_reads' = source_reads + 1
            /\ nframes' = nframes + 1
            /\ Alloc(0, IF NextFrame = NULL
                        THEN work_node(NULL, nframes, TRUE)
                        ELSE work_node(NextFrame, nframes, FALSE))
            /\ capture' = (IF NextFrame = NULL THEN capture ELSE capture + 1)
            /\ Goto(0, "m_ilock")
       ELSE /\ Goto(0, "m_elock")
            /\ UNCHANGED <<source_reads, nframes, heap, processed, taken, node_aux,
                           capture>>
    /\ UNCHANGED <<cfgvars, refilled, inq, outq, current_frame, flagvars, lockvars, condvars, i,
                   single_lag, mainpc, outvars, sentinels_taken, took_after_sentinel,
                   signals, stopped_taking, freed, precondition_violated>>

\* omp_set_lock(&input_work_queue_lock)
m_ilock ==
    /\ variant = "openmp_v2" /\ pc[0] = "m_ilock"
    /\ input_work_queue_lock = NoOwner
    /\ input_work_queue_lock' = 0
    /\ Goto(0, "m_iadd")
    /\ UNCHANGED <<cfgvars, refilled, capture, qvars, nframes, current_frame, flagvars,
                   output_work_queue_lock, lock_capturar_frame, lock_da_fila_de_saida,
                   condvars, node_aux, i, single_lag, mainpc, histvars>>

\* add_to_input_work_queue; omp_unset_lock; after the sentinel: is_there_any_frame = false
m_iadd ==
    /\ variant = "openmp_v2" /\ pc[0] = "m_iadd"
    /\ LET r == add_to_input_work_queue(heap, input_head, input_tail,
                                        size_input_work_queue, node_aux[0]) IN
       /\ heap' = r.heap
       /\ input_head' = r.head
       /\ input_tail' = r.tail
       /\ size_input_work_queue' = r.size
    /\ input_work_queue_lock' = NoOwner
    /\ is_there_any_frame' = frames_left(heap[node_aux[0]].is_the_last_node,
                                          is_there_any_frame)
    /\ node_aux' = [node_aux EXCEPT ![0] = NULL]
    /\ Goto(0, "m_elock")
    /\ UNCHANGED <<cfgvars, refilled, capture, outq, nframes, current_frame, is_there_any_work,
                   finished, output_work_queue_lock, lock_capturar_frame,
                   lock_da_fila_de_saida, condvars, i, single_lag, mainpc, histvars>>

\* block three: omp_set_lock(&output_work_queue_lock)
m_elock ==
    /\ variant = "openmp_v2" /\ pc[0] = "m_elock"
    /\ output_work_queue_lock = NoOwner
    /\ output_work_queue_lock' = 0
    /\ Goto(0, "m_echeck")
    /\ UNCHANGED <<cfgvars, refilled, capture, qvars, nframes, current_frame, flagvars,
                   input_work_queue_lock, lock_capturar_frame, lock_da_fila_de_saida,
                   condvars, node_aux, i, single_lag, mainpc, histvars>>

m_echeck ==
    /\ variant = "openmp_v2" /\ pc[0] = "m_echeck"
    /\ output_work_queue_lock' = NoOwner
    /\ EmitCheck(0, "m_esend", "m_loop")
    /\ UNCHANGED <<input_work_queue_lock, lock_capturar_frame, lock_da_fila_de_saida>>

m_esend ==
    /\ variant = "openmp_v2" /\ pc[0] = "m_esend"
    /\ EmitSend(0, "m_einc", "m_loop")

m_einc ==
    /\ variant = "openmp_v2" /\ pc[0] = "m_einc"
    /\ EmitAdvance(0, "m_loop")

master == m_loop \/ m_ingest \/ m_ilock \/ m_iadd \/ m_elock \/ m_echeck \/ m_esend \/ m_einc

\* ---------------------------------------------------------------- openmp_v2: worker threads
\* while(finished == false)
w_loop(t) ==
    /\ variant = "openmp_v2" /\ t \in Workers /\ pc[t] = "w_loop"
    /\ Goto(t, IF finished THEN "done" ELSE "w_check")
    /\ UNCHANGED <<cfgvars, refilled, capture, qvars, nframes, current_frame, flagvars, lockvars,
                   condvars, node_aux, i, single_lag, mainpc, histvars>>

\* block two: if((omp_get_thread_num() != 0) && (is_there_any_work == true))
w_check(t) ==
    /\ variant = "openmp_v2" /\ t \in Workers /\ pc[t] = "w_check"
    /\ IF is_there_any_work
       THEN Goto(t, "w_ilock") /\ UNCHANGED stopped_taking
       ELSE Goto(t, "w_loop") /\ stopped_taking' = stopped_taking \cup {t}
    /\ UNCHANGED <<cfgvars, refilled, capture, qvars, nframes, current_frame, flagvars, lockvars,
                   condvars, node_aux, i, single_lag, mainpc, outvars, processed,
                   takevars, source_reads, signals, freed, precondition_violated>>

\* omp_set_lock(&input_work_queue_lock)
w_ilock(t) ==
    /\ variant = "openmp_v2" /\ t \in Workers /\ pc[t] = "w_ilock"
    /\ input_work_queue_lock = NoOwner
    /\ input_work_queue_lock' = t
    /\ Goto(t, "w_take")
    /\ UNCHANGED <<cfgvars, refilled, capture, qvars, nframes, current_frame, flagvars,
                   output_work_queue_lock, lock_capturar_frame, lock_da_fila_de_saida,
                   condvars, node_aux, i, single_lag, mainpc, histvars>>

\* if(size_input_work_queue > 0) remove_from_input_work_queue(); omp_unset_lock
w_take(t) ==
    /\ variant = "openmp_v2" /\ t \in Workers /\ pc[t] = "w_take"
    /\ IF size_input_work_queue > 0
       THEN /\ LET r == remove_from_input_work_queue(heap, input_head,
                                                     size_input_work_queue) IN
               /\ heap' = r.heap
               /\ input_head' = r.head
               /\ size_input_work_queue' = r.size
               /\ node_aux' = [node_aux EXCEPT ![t] = r.node]
               /\ Took(t, r.node)
            /\ Goto(t, "w_proc")
            /\ UNCHANGED <<input_tail, outq>>
       ELSE /\ Goto(t, "w_loop")
            /\ UNCHANGED <<qvars, node_aux, takevars>>
    /\ input_work_queue_lock' = NoOwner
    /\ UNCHANGED <<cfgvars, refilled, capture, nframes, current_frame, flagvars,
                   output_work_queue_lock, lock_capturar_frame, lock_da_fila_de_saida,
                   condvars, i, single_lag, mainpc, outvars, processed, source_reads,
                   signals, stopped_taking, freed, precondition_violated>>

\* if(is_the_last_node) forward unchanged, else process_frame(&node_aux)
w_proc(t) ==
    /\ variant = "openmp_v2" /\ t \in Workers /\ pc[t] = "w_proc"
    /\ IF heap[node_aux[t]].is_the_last_node
       THEN UNCHANGED <<heap, processed>>
       ELSE /\ heap' = [heap EXCEPT ![node_aux[t]].frame = process_frame(@)]
            /\ processed' = [processed EXCEPT ![node_aux[t]] = @ + 1]
    /\ Goto(t, "w_olock")
    /\ UNCHANGED <<cfgvars, refilled, capture, inq, outq, nframes, current_frame, flagvars,
                   lockvars, condvars, node_aux, i, single_lag, mainpc, outvars,
                   takevars, source_reads, signals, stopped_taking, freed,
                   precondition_violated>>

\* omp_set_lock(&output_work_queue_lock)
w_olock(t) ==
    /\ variant = "openmp_v2" /\ t \in Workers /\ pc[t] = "w_olock"
    /\ output_work_queue_lock = NoOwner
    /\ output_work_queue_lock' = t
    /\ Goto(t, "w_oadd")
    /\ UNCHANGED <<cfgvars, refilled, capture, qvars, nframes, current_frame, flagvars,
                   input_work_queue_lock, lock_capturar_frame, lock_da_fila_de_saida,
                   condvars, node_aux, i, single_lag, mainpc, histvars>>

\* add_to_output_work_queue; omp_unset_lock
w_oadd(t) ==
    /\ variant = "openmp_v2" /\ t \in Workers /\ pc[t] = "w_oadd"
    /\ LET r == add_to_output_work_queue(heap, output_head, output_tail,
                                         size_output_work_queue, node_aux[t]) IN
       /\ heap' = r.heap
       /\ output_head' = r.head
       /\ output_tail' = r.tail
       /\ size_output_work_queue' = r.size
    /\ output_work_queue_lock' = NoOwner
    /\ Goto(t, w_next(heap[node_aux[t]].is_the_last_node))
    /\ node_aux' = [node_aux EXCEPT ![t] = NULL]
    /\ UNCHANGED <<cfgvars, refilled, capture, inq, nframes, current_frame, flagvars,
                   input_work_queue_lock, lock_capturar_frame, lock_da_fila_de_saida,
                   condvars, i, single_lag, mainpc, histvars>>

\* is_there_any_work = false
w_nowork(t) ==
    /\ variant = "openmp_v2" /\ t \in Workers /\ pc[t] = "w_nowork"
    /\ is_there_any_work' = FALSE
    /\ Goto(t, "w_loop")
    /\ UNCHANGED <<cfgvars, refilled, capture, qvars, nframes, current_frame, is_there_any_frame,
                   finished, lockvars, condvars, node_aux, i, single_lag, mainpc,
                   histvars>>

worker(t) ==
    \/ w_loop(t) \/ w_check(t) \/ w_ilock(t) \/ w_take(t) \/ w_proc(t) \/ w_olock(t)
    \/ w_oadd(t) \/ w_nowork(t)

\* ---------------------------------------------------------------- both OpenMP variants: end of run
\* variant: the region is left as soon as finished is set, without the barrier
end_parallel_no_barrier ==
    /\ variant \in {"openmp", "openmp_v2"} /\ mainpc = "parallel"
    /\ finished
    /\ mainpc' = "drain"
    /\ UNCHANGED <<cfgvars, refilled, capture, qvars, nframes, current_frame, flagvars, lockvars,
                   condvars, pc, node_aux, i, single_lag, histvars>>

\* the implicit barrier at the end of the parallel region
end_parallel ==
    /\ variant \in {"openmp", "openmp_v2"} /\ mainpc = "parallel"
    /\ \A t \in Threads : pc[t] = "done"
    /\ mainpc' = "drain"
    /\ UNCHANGED <<cfgvars, refilled, capture, qvars, nframes, current_frame, flagvars, lockvars,
                   condvars, pc, node_aux, i, single_lag, histvars>>

\* while(size_output_work_queue > 0) free(remove_from_output_work_queue());
drain ==
    /\ variant \in {"openmp", "openmp_v2"} /\ mainpc = "drain"
    /\ IF size_output_work_queue > 0
       THEN /\ LET r == remove_from_output_work_queue(heap, output_head,
                                                      size_output_work_queue) IN
               /\ heap' = r.heap
               /\ output_head' = r.head
               /\ size_output_work_queue' = r.size
               /\ freed' = Append(freed, r.node)
            /\ UNCHANGED <<inq, output_tail, mainpc>>
       ELSE /\ mainpc' = "stopped"
            /\ UNCHANGED <<qvars, freed>>
    /\ UNCHANGED <<cfgvars, refilled, capture, nframes, current_frame, flagvars, lockvars,
                   condvars, pc, node_aux, i, single_lag, outvars, processed, takevars,
                   source_reads, signals, stopped_taking, precondition_violated>>

Next == \/ main
        \/ stage_one
        \/ \E t \in Workers : stage_two(t)
        \/ stage_three
        \/ SpuriousWakeup
        \/ \E t \in Threads : openmp_thread(t)
        \/ master
        \/ \E t \in Workers : worker(t)
        \/ end_parallel
        \/ drain

Spec == Init /\ [][Next]_vars

\* ---------------------------------------------------------------- the queue functions alone
\* The four queue functions called by one caller in any order, on nodes carrying any
\* ids (equal ids included): a node is created and appended to the input queue, taken
\* from it, inserted into the output queue, removed from it and freed.
QueueInit ==
    /\ variant = "queues" /\ stream = <<>> /\ opened = TRUE /\ threads_number = 0
    /\ capture = 0
    /\ heap = <<>>
    /\ input_head = NULL /\ input_tail = NULL /\ size_input_work_queue = 0
    /\ output_head = NULL /\ output_tail = NULL /\ size_output_work_queue = 0
    /\ nframes = 0 /\ current_frame = 0
    /\ is_there_any_frame = TRUE /\ is_there_any_work = TRUE /\ finished = FALSE
    /\ input_work_queue_lock = NoOwner /\ output_work_queue_lock = NoOwner
    /\ lock_capturar_frame = NoOwner /\ lock_da_fila_de_saida = NoOwner
    /\ frame_to_process = {} /\ frame_to_send = {}
    /\ pc = [t \in {0} |-> "caller"]
    /\ node_aux = [t \in {0} |-> NULL]
    /\ i = 0
    /\ single_lag = [t \in {0} |-> 0]
    /\ mainpc = "queues"
    /\ display = <<>> /\ correctness = 0 /\ processed = <<>> /\ taken = <<>>
    /\ sentinels_taken = [t \in {0} |-> 0]
    /\ took_after_sentinel = {}
    /\ source_reads = 0 /\ signals = 0
    /\ stopped_taking = {}
    /\ freed = <<>>
    /\ precondition_violated = FALSE
    /\ refilled = FALSE

\* malloc a node with any id, add_to_input_work_queue(&node)
q_add_input(id) ==
    /\ variant = "queues" /\ Len(heap) < MaxNodes
    /\ LET n == Len(heap) + 1
           r == add_to_input_work_queue(Append(heap, work_node(Frame(n), id, FALSE)),
                                        input_head, input_tail,
                                        size_input_work_queue, n) IN
       /\ heap' = r.heap
       /\ input_head' = r.head
       /\ input_tail' = r.tail
       /\ size_input_work_queue' = r.size
    /\ processed' = Append(processed, 0)
    /\ taken' = Append(taken, 0)
    /\ refilled' = (refilled \/ (size_input_work_queue = 0 /\ input_tail # NULL))
    /\ UNCHANGED <<cfgvars, capture, outq, nframes, current_frame, flagvars, lockvars,
                   condvars, pc, node_aux, i, single_lag, mainpc, outvars,
                   sentinels_taken, took_after_sentinel, source_reads, signals,
                   stopped_taking, freed, precondition_violated>>

\* node = remove_from_input_work_queue(), on a non-empty queue
q_remove_input ==
    /\ variant = "queues" /\ size_input_work_queue > 0 /\ node_aux[0] = NULL
    /\ LET r == remove_from_input_work_queue(heap, input_head, size_input_work_queue) IN
       /\ heap' = r.heap
       /\ input_head' = r.head
       /\ size_input_work_queue' = r.size
       /\ node_aux' = [node_aux EXCEPT ![0] = r.node]
       /\ Took(0, r.node)
    /\ UNCHANGED <<cfgvars, capture, input_tail, outq, nframes, current_frame, flagvars,
                   lockvars, condvars, pc, i, single_lag, mainpc, outvars, processed,
                   source_reads, signals, stopped_taking, freed, precondition_violated,
                   refilled>>

\* add_to_output_work_queue(&node)
q_add_output ==
    /\ variant = "queues" /\ node_aux[0] # NULL
    /\ LET r == add_to_output_work_queue(heap, output_head, output_tail,
                                         size_output_work_queue, node_aux[0]) IN
       /\ heap' = r.heap
       /\ output_head' = r.head
       /\ output_tail' = r.tail
       /\ size_output_work_queue' = r.size
    /\ node_aux' = [node_aux EXCEPT ![0] = NULL]
    /\ UNCHANGED <<cfgvars, capture, inq, nframes, current_frame, flagvars, lockvars,
                   condvars, pc, i, single_lag, mainpc, histvars, refilled>>

\* free(remove_from_output_work_queue()), on a non-empty queue
q_remove_output ==
    /\ variant = "queues" /\ size_output_work_queue > 0
    /\ LET r == remove_from_output_work_queue(heap, output_head,
                                              size_output_work_queue) IN
       /\ heap' = r.heap
       /\ output_head' = r.head
       /\ size_output_work_queue' = r.size
       /\ freed' = Append(freed, r.node)
    /\ UNCHANGED <<cfgvars, capture, inq, output_tail, nframes, current_frame, flagvars,
                   lockvars, condvars, pc, node_aux, i, single_lag, mainpc, outvars,
                   processed, takevars, source_reads, signals, stopped_taking,
                   precondition_violated, refilled>>

QueueNext ==
    \/ \E id \in 0..MaxId : q_add_input(id)
    \/ q_remove_input
    \/ q_add_output
    \/ q_remove_output

QueueSpec == QueueInit /\ [][QueueNext]_vars

\* ---------------------------------------------------------------- any worker count
\* threads_number = atoi(argv[2]) may be zero or negative: main does not test it.
\* Only the case with a defined team size is modelled: threads_number = 0 in
\* lane_detection_openmp_v2.cpp, where omp_set_num_threads(threads_number + 1) asks
\* for one thread. (omp_set_num_threads with an argument <= 0 is implementation
\* defined.)
ArgInit ==
    /\ InitArgs(MaxM, 0..MaxN)
    /\ threads_number = 0 => variant = "openmp_v2"

ArgSpec == ArgInit /\ [][Next]_vars

\* ---------------------------------------------------------------- the checksum of a long run
\* k (k + 1) / 2, computed without leaving the int range
Triangular(k) == IF k % 2 = 0 THEN (k \div 2) * (k + 1) ELSE k * ((k + 1) \div 2)

\* lane_detection_openmp_v2.cpp when the master has written the frames 1 .. k in
\* id order (current_frame = k + 1) and correctness is their sum, at the start or
\* after LongRun frames; the sums up to there fit in an int. The queues and the
\* workers are left out: what follows depends on ids alone.
ChecksumInit ==
    /\ variant = "checksum" /\ stream = <<>> /\ opened = TRUE /\ threads_number = 1
    /\ capture = 0
    /\ heap = <<>>
    /\ input_head = NULL /\ input_tail = NULL /\ size_input_work_queue = 0
    /\ output_head = NULL /\ output_tail = NULL /\ size_output_work_queue = 0
    /\ \E k \in {0, LongRun} :
          /\ current_frame = k + 1 /\ nframes = k + 1
          /\ correctness = Triangular(k)
    /\ is_there_any_frame = TRUE /\ is_there_any_work = TRUE /\ finished = FALSE
    /\ input_work_queue_lock = NoOwner /\ output_work_queue_lock = NoOwner
    /\ lock_capturar_frame = NoOwner /\ lock_da_fila_de_saida = NoOwner
    /\ frame_to_process = {} /\ frame_to_send = {}
    /\ pc = [t \in {0} |-> "m_esend"]
    /\ node_aux = [t \in {0} |-> NULL]
    /\ i = 0
    /\ single_lag = [t \in {0} |-> 0]
    /\ mainpc = "parallel"
    /\ display = <<>> /\ processed = <<>> /\ taken = <<>>
    /\ sentinels_taken = [t \in {0} |-> 0]
    /\ took_after_sentinel = {}
    /\ source_reads = 0 /\ signals = 0
    /\ stopped_taking = {}
    /\ freed = <<>>
    /\ precondition_violated = FALSE
    /\ refilled = FALSE

\* the addition in send_frame_to_display would leave the int range
Overflows == correctness > INT_MAX - current_frame

\* send_frame_to_display on the payload node with id current_frame:
\* correctness = correctness + frame_number; then current_frame++
checksum_frame ==
    /\ variant = "checksum" /\ mainpc = "parallel" /\ current_frame <= MaxFrames
    /\ correctness' = int_add(correctness, current_frame)
    /\ current_frame' = current_frame + 1
    /\ nframes' = nframes + 1
    /\ UNCHANGED <<cfgvars, capture, qvars, flagvars, lockvars, condvars, pc, node_aux, i,
                   single_lag, mainpc, display, processed, takevars, source_reads,
                   signals, stopped_taking, freed, precondition_violated, refilled>>

\* the same addition in a build that traps on signed overflow: the run is
\* stopped and prints nothing
checksum_trap ==
    /\ variant = "checksum" /\ mainpc = "parallel" /\ current_frame <= MaxFrames
    /\ Overflows
    /\ mainpc' = "trapped"
    /\ UNCHANGED <<cfgvars, capture, qvars, nframes, current_frame, flagvars, lockvars,
                   condvars, pc, node_aux, i, single_lag, histvars, refilled>>

ChecksumNext == checksum_frame \/ checksum_trap

ChecksumSpec == ChecksumInit /\ [][ChecksumNext]_vars

\* ---------------------------------------------------------------- fair scheduling
\* every step one thread can take
ThreadStep(t) ==
    \/ t = 0 /\ (stage_one \/ master)
    \/ t \in Workers /\ (stage_two(t) \/ worker(t))
    \/ t = threads_number + 1 /\ stage_three
    \/ t \in Threads /\ openmp_thread(t)

\* a thread that can run, or that can take a lock again and again, eventually does;
\* spurious wake-ups are possible but never guaranteed
PthreadFairness ==
    /\ \A t \in 0..(LiveMaxN + 1) : SF_vars(ThreadStep(t))
    /\ WF_vars(main)

OpenMPFairness ==
    /\ \A t \in 0..LiveMaxN : SF_vars(ThreadStep(t))
    /\ WF_vars(main \/ end_parallel \/ drain)

\* the pthread pipeline alone, fairly scheduled
PthreadNext ==
    \/ main
    \/ stage_one
    \/ \E t \in Workers : stage_two(t)
    \/ stage_three
    \/ SpuriousWakeup

PthreadInit == InitFor(LiveMaxM, LiveMaxN) /\ variant = "pthread"

FairPthread == PthreadInit /\ [][PthreadNext]_vars /\ PthreadFairness

\* the two OpenMP variants alone, fairly scheduled
OpenMPNext ==
    \/ main
    \/ \E t \in Threads : openmp_thread(t)
    \/ master
    \/ \E t \in Workers : worker(t)
    \/ end_parallel
    \/ drain

OpenMPInit == InitFor(LiveMaxM, LiveMaxN) /\ variant \in {"openmp", "openmp_v2"}

FairOpenMP == OpenMPInit /\ [][OpenMPNext]_vars /\ OpenMPFairness

\* ================================================================ properties
M == Len(stream)

\* first id given to a frame by the ingest step
Base == IF variant = "openmp" THEN 0 ELSE 1

Nodes == 1..Len(heap)
Terminals == {n \in Nodes : heap[n].is_the_last_node}
Payloads == {n \in Nodes : ~heap[n].is_the_last_node}

\* the emit step has stopped: it dequeued its first sentinel
EmitStopped ==
    IF variant = "pthread" THEN pc[threads_number + 1] = "done" ELSE finished

\* the parallel region has been left
RegionLeft == mainpc \in {"drain", "stopped"}

\* every thread of the run has returned / left the parallel region's loop
AllReturned == \A t \in Threads : pc[t] = "done"

\* the run has stopped: stage_three returned / finished and the parallel region left
RunStopped ==
    IF variant = "pthread" THEN pc[threads_number + 1] = "done"
    ELSE finished /\ RegionLeft

DisplayFrames == [k \in 1..Len(display) |-> display[k].frame]

\* number of times node n was removed from the input queue, by whichever thread
PopCount(n) == taken[n]

\* the sentinels that sit in the output queue
QueuedSentinels == {k \in 1..Len(OutputQueue) : heap[OutputQueue[k]].is_the_last_node}

\* C1: once the run has stopped, the frames written to the sink are exactly
\* transform(f_1), ..., transform(f_M) in source order: M writes, none missing,
\* none duplicated, none reordered.
C1_OrderPreservation ==
    RunStopped => DisplayFrames = [k \in 1..M |-> process_frame(stream[k])]

C1_Witness ==
    /\ RunStopped /\ threads_number >= 2 /\ Len(display) >= 2
    /\ DisplayFrames = <<process_frame(Frame(1)), process_frame(Frame(2))>>

\* C2: process_frame runs at most once on any node and never on a sentinel; when
\* the run has stopped every one of the M payload nodes was processed exactly once;
\* in the pthread pipeline and in openmp_v2 no node is removed from the input queue
\* twice, every payload node was removed exactly once when the run has stopped, and
\* every queued node exactly once when all threads have returned.
C2_ExactlyOnce ==
    /\ \A n \in Nodes : processed[n] <= 1
    /\ \A n \in Nodes : PopCount(n) <= 1
    /\ RunStopped =>
         /\ Cardinality(Payloads) = M
         /\ \A n \in Payloads : processed[n] = 1
         /\ variant # "openmp" => \A n \in Payloads : PopCount(n) = 1
    /\ (variant # "openmp" /\ AllReturned) => \A n \in Nodes : PopCount(n) = 1

C2_Witness ==
    /\ variant # "openmp" /\ AllReturned /\ M >= 2 /\ threads_number >= 2
    /\ \A n \in Nodes : PopCount(n) = 1 /\ (n \in Payloads => processed[n] = 1)

\* C3: at every state the ids of the nodes written so far to the sink are
\* base, base+1, ..., base+j-1: frame k+1 is never written before frame k.
C3_InOrderEmission ==
    \A k \in 1..Len(display) : display[k].frame_number = Base + k - 1

\* a later node (here the sentinel) reached the output queue before the frame the
\* emit step is waiting for, after an earlier frame was already written
C3_Witness ==
    /\ Len(display) >= 1 /\ Len(display) < M
    /\ current_frame = Base + Len(display)
    /\ size_output_work_queue > 0
    /\ heap[output_head].frame_number > current_frame

C6_SentinelsPerWorker ==
    variant = "pthread" =>
        /\ source_reads <= M + 1
        /\ Terminals # {} => (capture = M /\ source_reads = M + 1)
        /\ \A n \in Terminals : heap[n].frame = NULL
        /\ Cardinality(Terminals) <= threads_number
        /\ pc[0] = "done" =>
             /\ Cardinality(Terminals) = threads_number
             /\ Cardinality(Payloads) = M
             /\ source_reads = M + 1
             /\ signals = M + threads_number

C6_Witness ==
    /\ variant = "pthread" /\ pc[0] = "done"
    /\ threads_number = 2 /\ M >= 1 /\ Cardinality(Terminals) = 2

\* C7: in the pthread pipeline a stage_two worker dequeues at most one sentinel and
\* pops nothing after it; a worker that has returned dequeued exactly one; every
\* sentinel is forwarded unchanged (no frame, its id, still a sentinel, never
\* processed): each returned worker's sentinel is in the output queue or is the one
\* stage_three removed; when all workers have returned the input queue is empty.
C7_OneSentinelPerWorker ==
    variant = "pthread" =>
        /\ \A w \in Workers :
             /\ sentinels_taken[w] <= 1
             /\ w \notin took_after_sentinel
             /\ sentinels_taken[w] = 1 =>
                    pc[w] \in {"s2_branch", "s2_olock", "s2_oadd", "done"}
             /\ pc[w] = "done" => sentinels_taken[w] = 1
        /\ \A n \in Terminals :
             /\ heap[n].frame = NULL
             /\ heap[n].frame_number = M + 1
             /\ processed[n] = 0
        /\ Cardinality({w \in Workers : pc[w] = "done"})
             = Cardinality(QueuedSentinels)
               + (IF node_aux[threads_number + 1] \in Terminals THEN 1 ELSE 0)
        /\ (\A w \in Workers : pc[w] = "done") =>
             (size_input_work_queue = 0 /\ input_head = NULL)

C7_Witness ==
    /\ variant = "pthread" /\ threads_number = 2 /\ M = 2
    /\ \A w \in Workers : pc[w] = "done"
    /\ Cardinality(QueuedSentinels) = 2

\* C8 as stated: both OpenMP variants create exactly threads_number sentinels.
C8_ExactlyNSentinels ==
    (variant \in {"openmp", "openmp_v2"} /\ RegionLeft) =>
        Cardinality(Terminals) = threads_number

\* C8 amended: openmp_v2 creates exactly one sentinel, which exactly one worker
\* removes from the input queue; openmp creates at least one and at most
\* threads_number sentinels, and no thread creates two.
C8_SentinelCount ==
    /\ variant = "openmp_v2" =>
         /\ Cardinality(Terminals) <= 1
         /\ \A n \in Terminals : PopCount(n) <= 1
         /\ RegionLeft =>
              (Cardinality(Terminals) = 1 /\ \A n \in Terminals : PopCount(n) = 1)
    /\ variant = "openmp" =>
         /\ Cardinality(Terminals) <= threads_number
         /\ RegionLeft => Cardinality(Terminals) >= 1

C8_Witness ==
    /\ mainpc = "stopped" /\ threads_number = 2
    /\ \/ variant = "openmp" /\ Cardinality(Terminals) = 1
       \/ variant = "openmp_v2" /\ \E n \in Terminals : PopCount(n) = 1

\* C9 as stated: an openmp_v2 worker stops taking nodes only after it has itself
\* dequeued a sentinel.
C9_StopsOnOwnSentinel ==
    variant = "openmp_v2" =>
        \A w \in Workers :
            (w \in stopped_taking \/ pc[w] = "done") => sentinels_taken[w] > 0

\* C9 amended: an openmp_v2 worker stops taking nodes only after some worker, itself
\* or another, has dequeued the sentinel; a worker that skips block two does so
\* because the shared flag is_there_any_work was set to false.
C9_StopsOnSharedFlag ==
    variant = "openmp_v2" =>
        \A w \in Workers :
            /\ (w \in stopped_taking \/ pc[w] = "done") =>
                   \E u \in Workers : sentinels_taken[u] > 0
            /\ w \in stopped_taking => ~is_there_any_work

C9_Witness ==
    /\ variant = "openmp_v2"
    /\ \E w \in stopped_taking : sentinels_taken[w] = 0

\* C10: once the emit step has stopped every node in the output queue, and every
\* node a thread still holds for insertion, is a sentinel; the drain frees only
\* sentinels, and after the drain the output queue is empty.
C10_DrainOnlySentinels ==
    /\ EmitStopped =>
         /\ \A k \in 1..Len(OutputQueue) : heap[OutputQueue[k]].is_the_last_node
         /\ \A t \in Threads :
              (node_aux[t] # NULL /\ node_aux[t] \notin Terminals)
                 => pc[t] \in {"s1_lock", "s1_add"}
    /\ \A k \in 1..Len(freed) : k > Len(display) => heap[freed[k]].is_the_last_node
    /\ (variant # "pthread" /\ mainpc = "stopped") =>
           (size_output_work_queue = 0 /\ output_head = NULL)

C10_Witness ==
    /\ variant = "openmp" /\ mainpc = "stopped" /\ M >= 1
    /\ Len(freed) > Len(display)
    /\ size_output_work_queue = 0

\* the node the emit step holds after a removal from the output queue
EmitHeld ==
    {node_aux[t] : t \in {u \in Threads : pc[u] \in {"s3_branch", "o_esend", "m_esend"}}}

\* C11: for an empty stream (M = 0) every node created is a sentinel, every node the
\* emit step dequeues is a sentinel, send_frame_to_display is never called and
\* nothing is freed through it; the emit step stops on the first node it dequeues.
C11_EmptyStream ==
    M = 0 =>
        /\ display = <<>>
        /\ Payloads = {}
        /\ \A n \in EmitHeld : heap[n].is_the_last_node
        /\ current_frame = (IF variant = "openmp" THEN 0 ELSE 1)
              \/ (variant = "pthread" /\ current_frame = 0)
        /\ EmitStopped => (display = <<>> /\ Terminals # {})

\* an empty stream, two workers, and the run has stopped
C11_Witness ==
    /\ M = 0 /\ threads_number = 2 /\ RunStopped
    /\ display = <<>> /\ Terminals # {}

\* thread t is at the test of an emit step
EmitTesting(t) == pc[t] \in {"s3_check1", "s3_check2", "o_echeck", "m_echeck"}

\* the output queue is non-empty and its head carries the awaited id
HeadIsAwaited ==
    size_output_work_queue > 0 /\ heap[output_head].frame_number = current_frame

\* C12: an emit step (stage_three's two tests, the emit block of both
\* parallel_processing variants) removes a node only when the output queue is
\* non-empty and its head's frame_number equals current_frame, and then removes
\* exactly that head; when the queue is empty or the head's id differs the step
\* leaves the queue, size_output_work_queue and current_frame unchanged and writes
\* nothing; no other step of the parallel phase removes from the output queue.
C12_EmitStep ==
    /\ \A t \in Threads :
          (EmitTesting(t) /\ pc'[t] # pc[t]) =>
             IF HeadIsAwaited /\ pc[t] # "s3_check1"
             THEN /\ size_output_work_queue' = size_output_work_queue - 1
                  /\ output_head' = heap[output_head].next
                  /\ node_aux'[t] = output_head
                  /\ current_frame' = current_frame /\ display' = display
             ELSE /\ outq' = outq /\ heap' = heap
                  /\ current_frame' = current_frame /\ display' = display
    /\ (mainpc = "parallel" /\ size_output_work_queue' < size_output_work_queue) =>
          HeadIsAwaited

C12_EmitRemoval == [][C12_EmitStep]_vars

\* stage_three found a head whose id is not the awaited one and waits again, the
\* queue still holding that node
C12_Witness ==
    /\ variant = "pthread" /\ pc[threads_number + 1] = "s3_wait2"
    /\ size_output_work_queue > 0
    /\ heap[output_head].frame_number # current_frame
    /\ ~heap[output_head].is_the_last_node

\* frame_numbers along the output queue, in list order
OutputIds == [k \in 1..Len(OutputQueue) |-> heap[OutputQueue[k]].frame_number]

\* the nodes that were inserted into the output queue and not removed from it since
\* (queue functions alone: a node taken from the input queue is either held by the
\* caller, in the output queue, or freed)
InOutput ==
    {n \in Nodes : taken[n] > 0 /\ n # node_aux[0]
                    /\ \A k \in 1..Len(freed) : freed[k] # n}

\* C13: after any sequence of add_to_output_work_queue and
\* remove_from_output_work_queue calls the nodes reachable from output_head are
\* exactly the nodes inserted and not yet removed, in non-decreasing frame_number
\* order, so output_head carries the minimum id present.
C13_OutputSorted ==
    variant = "queues" =>
        /\ Len(OutputQueue) = size_output_work_queue
        /\ {OutputQueue[k] : k \in 1..Len(OutputQueue)} = InOutput
        /\ \A k \in 1..(Len(OutputIds) - 1) : OutputIds[k] <= OutputIds[k + 1]
        /\ \A n \in InOutput : heap[output_head].frame_number <= heap[n].frame_number

\* three nodes are queued, two of them with the same id, after a removal, and the
\* last one inserted went between two others
C13_Witness ==
    /\ variant = "queues" /\ Len(freed) >= 1 /\ size_output_work_queue = 3
    /\ OutputIds = <<0, 1, 1>>
    /\ OutputQueue[2] > OutputQueue[1] /\ OutputQueue[2] > OutputQueue[3]

\* C14: the output queue never holds two nodes with the same frame_number, payload
\* and sentinel nodes alike.
C14_NoDuplicateIds ==
    \A j, k \in 1..Len(OutputQueue) : j # k => OutputIds[j] # OutputIds[k]

\* C14, as the code has it: two nodes of the output queue carry the same
\* frame_number only when both are sentinels of the stage_one/stage_two/stage_three
\* pipeline (stage_one gives every sentinel the id nframes); payload nodes have ids
\* of their own, and in both parallel_processing variants all ids differ.
C14_DuplicatesAreSentinels ==
    \A j, k \in 1..Len(OutputQueue) :
        (j # k /\ OutputIds[j] = OutputIds[k]) =>
            /\ variant = "pthread"
            /\ heap[OutputQueue[j]].is_the_last_node
            /\ heap[OutputQueue[k]].is_the_last_node
            /\ OutputIds[j] = M + 1

\* two sentinels with the same id wait in the output queue behind a payload node
C14_Witness ==
    /\ variant = "pthread" /\ threads_number = 2 /\ M >= 1
    /\ size_output_work_queue = 3
    /\ OutputIds[2] = OutputIds[3]
    /\ heap[OutputQueue[2]].is_the_last_node /\ heap[OutputQueue[3]].is_the_last_node

\* the elements of a finite set of integers in ascending order
RECURSIVE Ascending(_)
Ascending(S) ==
    IF S = {} THEN <<>>
    ELSE LET m == CHOOSE x \in S : \A y \in S : x <= y IN <<m>> \o Ascending(S \ {m})

\* the ids obtained by calling remove_from_output_work_queue until the queue is empty
RECURSIVE RemoveAllIds(_, _, _)
RemoveAllIds(h, head, size) ==
    IF size = 0 THEN <<>>
    ELSE LET r == remove_from_output_work_queue(h, head, size) IN
         <<h[r.node].frame_number>> \o RemoveAllIds(r.heap, r.head, r.size)

\* C15: when the nodes inserted into the output queue carry distinct ids, removing
\* the head repeatedly yields them in ascending id order, whatever the order in
\* which add_to_output_work_queue received them: the queue content is determined
\* by the set of ids alone.
C15_ArrivalOrderIrrelevant ==
    (variant = "queues"
       /\ \A a, b \in InOutput : a # b => heap[a].frame_number # heap[b].frame_number)
    => /\ RemoveAllIds(heap, output_head, size_output_work_queue)
            = Ascending({heap[n].frame_number : n \in InOutput})
       /\ OutputIds = Ascending({heap[n].frame_number : n \in InOutput})

\* arrival order 2, 0, 1 and nothing removed yet: the queue holds 0, 1, 2
C15_Witness ==
    /\ variant = "queues" /\ freed = <<>> /\ Len(heap) = 3
    /\ [n \in 1..3 |-> heap[n].frame_number] = <<2, 0, 1>>
    /\ size_output_work_queue = 3
    /\ RemoveAllIds(heap, output_head, size_output_work_queue) = <<0, 1, 2>>

\* C16: the input queue is FIFO: the nodes removed so far are the nodes added
\* first, each removed once, and the queue holds the remaining nodes in the order
\* in which they were added (nodes are numbered in the order of their addition);
\* this also holds after the queue became empty and was filled again.
C16_InputFifo ==
    variant = "queues" =>
        /\ \A n \in Nodes : taken[n] <= 1
        /\ \E k \in 0..Len(heap) :
              /\ {n \in Nodes : taken[n] = 1} = 1..k
              /\ InputQueue = [j \in 1..(Len(heap) - k) |-> k + j]
              /\ size_input_work_queue = Len(heap) - k
        /\ size_input_work_queue > 0 => input_tail = Len(heap)

\* the queue was emptied and filled again, and every node but the last one added has
\* been removed
C16_Witness ==
    /\ variant = "queues" /\ refilled
    /\ Len(heap) >= 3 /\ taken[Len(heap) - 1] = 1 /\ taken[Len(heap)] = 0
    /\ size_input_work_queue = 1

\* C17: remove_from_input_work_queue, remove_from_output_work_queue and
\* get_head_id_from_output_work_queue never run on an empty queue. The call sites
\* test the size counters, so: a counter is positive exactly when its list has a
\* node; stage_three, which reads the head in its second wait loop without testing
\* the counter again, is there only while the output queue holds a node; a thread
\* that has just removed a node holds one.
C17_NonEmptyAtCalls ==
    /\ ~precondition_violated
    /\ size_input_work_queue >= 0 /\ size_output_work_queue >= 0
    /\ (size_input_work_queue > 0) <=> (input_head # NULL)
    /\ (size_output_work_queue > 0) <=> (output_head # NULL)
    /\ Len(InputQueue) = size_input_work_queue
    /\ Len(OutputQueue) = size_output_work_queue
    /\ variant = "pthread" =>
          (pc[threads_number + 1] \in {"s3_check2", "s3_wait2"} => output_head # NULL)
    /\ \A t \in Threads :
          pc[t] \in {"s2_branch", "s3_branch", "o_esend", "m_esend", "w_proc"}
              => node_aux[t] # NULL

\* stage_three was woken in its second wait loop and is about to read the head
\* again; the awaited frame has arrived in the meantime
C17_Witness ==
    /\ variant = "pthread" /\ pc[threads_number + 1] = "s3_wait2"
    /\ (threads_number + 1) \notin frame_to_send
    /\ output_head # NULL /\ heap[output_head].frame_number = current_frame
    /\ size_output_work_queue = 2

\* C18: a worker count N <= 0 is rejected at startup: no frame is read, no node is
\* created and parallel_processing is not entered.
C18_InvalidCountRejected ==
    threads_number <= 0 =>
        /\ mainpc = "main"
        /\ source_reads = 0 /\ heap = <<>>

\* what the code does instead in lane_detection_openmp_v2.cpp: the team has the
\* master thread only, nothing reaches the output queue and finished stays false
C18_InvalidCountNeverFinishes ==
    (variant = "openmp_v2" /\ threads_number <= 0) =>
        (~finished /\ size_output_work_queue = 0 /\ display = <<>>)

\* C19: when the stream cannot be opened the process aborts before the pipeline
\* starts: parallel_processing is not entered, no work node is created and nothing
\* is written to the sink.
C19_AbortsOnOpenFailure ==
    ~opened =>
        /\ mainpc = "main"
        /\ heap = <<>>
        /\ display = <<>>

\* what the code does instead: the run is the run of an empty stream, it creates
\* sentinels only and writes nothing
C19_OpenFailureRunsEmpty ==
    ~opened => (Payloads = {} /\ display = <<>> /\ source_reads <= threads_number)

\* C20: with one worker (N = 1) each parallel pipeline writes exactly what the
\* sequential loop writes for the same stream: at every state the frames written
\* so far are a prefix of the sequential output, and once the run has stopped they
\* are the whole of it.
C20_SingleWorkerIsSequential ==
    threads_number = 1 =>
        /\ Len(display) <= Len(sequential(stream, <<>>))
        /\ DisplayFrames = SubSeq(sequential(stream, <<>>), 1, Len(display))
        /\ RunStopped => DisplayFrames = sequential(stream, <<>>)

\* one worker, a stream of two frames, the run has stopped and both were written
C20_Witness ==
    /\ threads_number = 1 /\ M = 2 /\ RunStopped
    /\ Len(display) = 2 /\ DisplayFrames = sequential(stream, <<>>)

\* C21: process_frame is never invoked on a sentinel: a sentinel keeps frame = NULL
\* from its creation on, wherever it is, and is never passed to
\* send_frame_to_display: every frame written is the processed frame of a payload
\* node, and the nodes freed by the stage_one/stage_two/stage_three pipeline or
\* before the drain are payload nodes.
C21_SentinelsNeverProcessed ==
    /\ \A n \in Terminals : processed[n] = 0 /\ heap[n].frame = NULL
    /\ \A k \in 1..Len(display) :
          /\ display[k].frame # NULL
          /\ \E n \in Payloads : /\ heap[n].frame_number = display[k].frame_number
                                  /\ heap[n].frame = display[k].frame
                                  /\ processed[n] = 1
    /\ \A k \in 1..Len(freed) :
          (k <= Len(display)) => ~heap[freed[k]].is_the_last_node
    /\ Len(display) <= Len(freed)

\* a sentinel has gone through a worker into the output queue and the emit step
\* has dequeued it, after a frame was written
C21_Witness ==
    /\ EmitStopped /\ Len(display) >= 1
    /\ variant \in {"pthread", "openmp_v2"}
    /\ \E t \in Workers : sentinels_taken[t] = 1
    /\ \A n \in Terminals : processed[n] = 0

\* the thread whose step reads the source
Reader(t) ==
    /\ pc'[t] # pc[t]
    /\ CASE variant = "pthread" -> t = 0 /\ pc[t] = "s1_read"
         [] variant = "openmp_v2" -> t = 0 /\ pc[t] = "m_ingest"
         [] OTHER -> pc[t] = "o_capture" /\ lock_capturar_frame = t

\* C22: the source is read by one thread at a time (stage_one alone, the master
\* alone, or the holder of lock_capturar_frame, which covers the read and
\* id_of_my_frame = nframes; nframes++ in one section), and the k-th frame read
\* gets the id Base + k - 1: the payload ids are Base .. Base + M - 1 in read
\* order, distinct and without gaps.
C22_SingleReaderDenseIds ==
    [][/\ (source_reads' # source_reads) => \E t \in Threads : Reader(t)
       /\ \A t \in Threads : pc'[t] = "o_capture" => lock_capturar_frame' = t
       /\ Cardinality(Payloads') = capture'
       /\ \A n \in Payloads' :
             LET k == Cardinality({p \in Payloads' : p < n}) + 1 IN
             /\ heap'[n].frame_number = Base + k - 1
             /\ heap'[n].frame \in {stream[k], process_frame(stream[k])}]_vars

\* two threads of the openmp variant have read one frame each, the second frame
\* by the lower-numbered thread, and both still hold their nodes
C22_Witness ==
    /\ variant = "openmp" /\ threads_number = 2 /\ M = 2
    /\ node_aux[2] = 1 /\ node_aux[1] = 2
    /\ heap[1].frame_number = 0 /\ heap[2].frame_number = 1

\* the threads between the removal of a node by the emit step and the increment
\* of current_frame that follows the write
Emitting == {t \in Threads : pc[t] \in {"s3_branch", "o_esend", "o_einc", "m_esend", "m_einc"}}

\* C23: send_frame_to_display is never executed by two threads at once and its
\* calls occur in id order: at most one thread is between the removal of a node
\* by the emit step and the increment of current_frame, no other thread holds a
\* removed node meanwhile, and the k-th frame written carries the id Base + k - 1.
C23_OneEmitterInIdOrder ==
    /\ Cardinality(Emitting) <= 1
    /\ \A k \in 1..Len(display) : display[k].frame_number = Base + k - 1
    /\ \A t \in Threads :
          pc[t] \in {"o_einc", "m_einc"} =>
              /\ Len(display) = current_frame - Base + 1
              /\ ~HeadIsAwaited

\* openmp: a thread has written frame 0 and not yet incremented current_frame
\* while another thread, in a later instance of the single block, holds
\* lock_da_fila_de_saida and tests the non-empty output queue
C23_Witness ==
    /\ variant = "openmp" /\ threads_number = 2
    /\ \E t, u \in Threads :
          /\ t # u /\ pc[t] = "o_einc" /\ pc[u] = "o_echeck"
          /\ lock_da_fila_de_saida = u
    /\ size_output_work_queue > 0 /\ Len(display) = 1

\* a thread has written a frame and not yet executed the current_frame++ that follows
WriteNotCounted == \E t \in Threads : pc[t] \in {"o_einc", "m_einc"}

\* stage_three has executed the current_frame++ at the top of its current iteration
IterationCounted ==
    variant = "pthread" /\ pc[threads_number + 1] \notin {"unborn", "s3_lock"}

\* C24 (as stated): current_frame starts at the first ingest id and is one more
\* for each frame written, an increment following each write and nothing else.
C24_AdvancesOnlyAfterWrite ==
    current_frame = Base + Len(display) - (IF WriteNotCounted THEN 1 ELSE 0)

\* C24 (corrected): current_frame never decreases and changes only by +1 in a
\* step of the emit step. In both parallel_processing variants it starts at the
\* first ingest id and the increment follows each write. In stage_three it starts
\* at 0, one below the first id, and is incremented at the top of every iteration
\* before the wait, the iteration that dequeues the sentinel included: M + 1
\* increments for M writes.
C24_CurrentFrame ==
    [][/\ current_frame' \in {current_frame, current_frame + 1}
       /\ (current_frame' # current_frame) =>
             \E t \in Threads : /\ pc[t] \in {"s3_lock", "o_einc", "m_einc"}
                                 /\ pc'[t] # pc[t]
                                 /\ display' = display
       /\ IF variant = "pthread"
          THEN current_frame' = Len(display') + (IF IterationCounted' THEN 1 ELSE 0)
          ELSE C24_AdvancesOnlyAfterWrite']_vars

\* stage_three has written a frame, incremented current_frame again and waits for
\* the next node
C24_Witness ==
    /\ variant = "pthread" /\ Len(display) = 1 /\ current_frame = 2
    /\ pc[threads_number + 1] \in {"s3_wait1", "s3_wait2"}

\* C25: in both parallel_processing variants finished changes only from false to
\* true, in the step of the emit block that follows the removal of a sentinel
\* whose id equals current_frame; once finished is true no frame is written and
\* no node leaves the output queue except through the drain, which follows the
\* parallel region: main goes parallel -> drain -> stopped and never back.
C25_FinishedOnce ==
    [][(variant \in {"openmp", "openmp_v2"}) =>
        (
         /\ (finished' # finished) =>
               /\ ~finished /\ finished'
               /\ \E t \in Threads :
                     /\ pc[t] \in {"o_esend", "m_esend"} /\ pc'[t] # pc[t]
                     /\ node_aux[t] # NULL
                     /\ heap[node_aux[t]].is_the_last_node
                     /\ heap[node_aux[t]].frame_number = current_frame
                     /\ node_aux[t] \notin {OutputQueue[k] : k \in 1..Len(OutputQueue)}
         /\ finished =>
               /\ display' = display /\ current_frame' = current_frame
               /\ (size_output_work_queue' < size_output_work_queue) => mainpc = "drain"
         /\ (mainpc' # mainpc) =>
               \/ mainpc = "main" /\ mainpc' = "parallel" /\ ~finished
               \/ mainpc = "parallel" /\ mainpc' = "drain" /\ finished
               \/ mainpc = "drain" /\ mainpc' = "stopped" /\ size_output_work_queue = 0
         /\ RegionLeft => (pc' = pc /\ AllReturned))]_vars

\* finished is true, the region is still running, and a thread that entered the
\* emit block before it was set tests a non-empty output queue
C25_Witness ==
    /\ variant = "openmp" /\ finished /\ mainpc = "parallel"
    /\ \E t \in Threads : pc[t] = "o_echeck"
    /\ size_output_work_queue > 0

\* thread t is about to read or write input_head, input_tail or size_input_work_queue
InputAccess(t) == pc[t] \in {"s1_add", "s2_check", "m_iadd", "w_take"}

\* thread t is about to read or write output_head or size_output_work_queue
OutputAccess(t) ==
    pc[t] \in {"s2_oadd", "s3_check1", "s3_check2", "o_echeck", "o_oadd", "m_echeck", "w_oadd"}

\* the lock that guards the output queue in the variant at hand
OutputLock ==
    IF variant = "openmp" THEN lock_da_fila_de_saida ELSE output_work_queue_lock

\* the next pointer of an existing node is rewritten
Relinked == \E n \in Nodes : heap'[n].next # heap[n].next

\* C26: during the concurrent phase a thread that reads or writes the input
\* queue's head, tail or size holds the input lock, a thread that reads or writes
\* the output queue's head or size holds the output lock, each lock has one owner,
\* so no two threads are inside add, remove or head-id of the same queue, and
\* the queue variables and links change only in a step of the lock's holder.
C26_QueuesUnderLock ==
    [][(mainpc = "parallel") =>
        (/\ \A t \in Threads :
              /\ InputAccess(t) => input_work_queue_lock = t
              /\ OutputAccess(t) => OutputLock = t
         /\ (inq' # inq) =>
               \E t \in Threads : InputAccess(t) /\ pc'[t] # pc[t]
         /\ (<<output_head, size_output_work_queue>>' # <<output_head, size_output_work_queue>>) =>
               \E t \in Threads : OutputAccess(t) /\ pc'[t] # pc[t]
         /\ Relinked =>
               \E t \in Threads : (InputAccess(t) \/ OutputAccess(t)) /\ pc'[t] # pc[t]
         /\ Cardinality({t \in Threads : InputAccess(t)}) <= 1
         /\ Cardinality({t \in Threads : OutputAccess(t)}) <= 1)]_vars

\* stage_three holds the output mutex after a wake-up and tests the head while a
\* stage_two thread with a node waits for that mutex and stage_one holds the
\* input mutex
C26_Witness ==
    /\ variant = "pthread"
    /\ pc[threads_number + 1] = "s3_check2"
    /\ output_work_queue_lock = threads_number + 1
    /\ \E t \in Workers : pc[t] = "s2_olock" /\ node_aux[t] # NULL
    /\ pc[0] = "s1_add" /\ input_work_queue_lock = 0
    /\ size_output_work_queue > 0

\* how many times node n occurs in the sequence q
Occurrences(q, n) == Cardinality({k \in 1..Len(q) : q[k] = n})

\* the threads whose node_aux points to node n
Holders(n) == {t \in Threads : node_aux[t] = n}

\* the number of places that hold node n
Places(n) ==
    Occurrences(InputQueue, n) + Occurrences(OutputQueue, n) + Cardinality(Holders(n))

\* C27: a node is never in two places (input queue, node_aux of one thread,
\* output queue) and a node that is not freed is in one, except the sentinel
\* the emit step stopped on, which parallel_processing drops without freeing;
\* a node is freed at most once, a payload node by send_frame_to_display and a
\* sentinel by the drain, and a freed node is in no queue and in no thread's
\* hands; input_tail, through which add_to_input_work_queue writes, is the last
\* queued node.
C27_SingleOwner ==
    /\ \A n \in Nodes :
          /\ Places(n) <= 1
          /\ Occurrences(freed, n) <= 1
          /\ Occurrences(freed, n) = 1 => Places(n) = 0
          /\ (Occurrences(freed, n) = 0 /\ Places(n) = 0) =>
                /\ heap[n].is_the_last_node /\ finished
                /\ heap[n].frame_number = current_frame
    /\ \A k \in 1..Len(freed) :
          IF heap[freed[k]].is_the_last_node
          THEN RegionLeft /\ k > Len(display)
          ELSE k <= Len(display)
                 /\ display[k].frame_number = heap[freed[k]].frame_number
    /\ size_input_work_queue > 0 => input_tail = InputQueue[Len(InputQueue)]
    /\ Len(InputQueue) = size_input_work_queue
    /\ Len(OutputQueue) = size_output_work_queue

\* v2: the first frame is written and freed, a worker holds the second frame
\* and the sentinel is in the input queue
C27_Witness ==
    /\ variant = "openmp_v2" /\ Len(freed) = 1
    /\ \E t \in Workers : pc[t] = "w_proc" /\ node_aux[t] = 2
    /\ size_input_work_queue = 1 /\ heap[input_head].is_the_last_node

\* no thread is inside the parallel region, holds a lock or holds a node
Quiescent ==
    /\ AllReturned
    /\ \A t \in Threads : node_aux[t] = NULL
    /\ lock_capturar_frame = NoOwner /\ lock_da_fila_de_saida = NoOwner
    /\ input_work_queue_lock = NoOwner /\ output_work_queue_lock = NoOwner

\* C28: the drain, which takes no lock, runs only when no other thread can touch
\* the output queue: from the first drain step on every thread has left the
\* loop of the parallel region, none holds a lock or a node, and the output
\* queue only shrinks; every insertion, that of a sentinel by a thread that
\* passed the is_there_any_work test before finished was set included, happens
\* while main is still inside the region.
C28_DrainAlone ==
    [][/\ RegionLeft' => Quiescent'
       /\ RegionLeft => (pc' = pc /\ node_aux' = node_aux /\ lockvars' = lockvars)
       /\ (size_output_work_queue' > size_output_work_queue) =>
             (mainpc = "parallel" /\ mainpc' = "parallel")
       /\ (RegionLeft /\ size_output_work_queue' # size_output_work_queue) =>
             /\ mainpc = "drain"
             /\ size_output_work_queue' = size_output_work_queue - 1
             /\ output_head' = heap[output_head].next]_vars

\* finished is set and a thread that passed the is_there_any_work test earlier
\* holds lock_da_fila_de_saida and is about to insert its sentinel
C28_Witness ==
    /\ variant = "openmp" /\ finished
    /\ \E t \in Threads : /\ pc[t] = "o_oadd" /\ lock_da_fila_de_saida = t
                           /\ heap[node_aux[t]].is_the_last_node

\* C29: the id of every sentinel is greater than the id of every payload node:
\* a sentinel exists only after all M frames were read, and its id is at least
\* Base + M while the payload ids end at Base + M - 1; so a sentinel is at the
\* head of the output queue with id = current_frame only after all M frames
\* were written.
C29_SentinelIdsAbovePayloads ==
    /\ \A n \in Terminals :
          /\ capture = M /\ Cardinality(Payloads) = M
          /\ heap[n].frame_number >= Base + M
          /\ \A p \in Payloads : heap[p].frame_number < heap[n].frame_number
    /\ (HeadIsAwaited /\ heap[output_head].is_the_last_node) =>
          /\ Len(display) = M
          /\ \A p \in Payloads : Occurrences(freed, p) = 1

\* openmp: both frames are written, two sentinels exist and the one at the head
\* of the output queue carries the awaited id
C29_Witness ==
    /\ variant = "openmp" /\ M = 2 /\ Len(display) = 2
    /\ Cardinality(Terminals) = 2
    /\ HeadIsAwaited /\ heap[output_head].is_the_last_node

\* a worker of v2 has removed the sentinel from the input queue
SentinelTaken == \E t \in Workers : sentinels_taken[t] > 0

\* payload node p is on its way to the sink: in the hands of a worker that will
\* transform and insert it, in the output queue, with the master, or written
OnItsWay(p) ==
    \/ \E t \in Workers : /\ node_aux[t] = p
                           /\ \/ pc[t] = "w_proc" /\ processed[p] = 0
                              \/ pc[t] \in {"w_olock", "w_oadd"} /\ processed[p] = 1
    \/ Occurrences(OutputQueue, p) = 1 /\ processed[p] = 1
    \/ node_aux[0] = p /\ pc[0] = "m_esend" /\ processed[p] = 1
    \/ Occurrences(freed, p) = 1 /\ processed[p] = 1

\* C30: in v2, once a worker has removed the sentinel the input queue is empty
\* and stays empty: all M frames were read, the master adds nothing more, and
\* every payload node was removed before; so is_there_any_work = false leaves no
\* payload node in the input queue, and a payload node another worker took
\* earlier is still transformed once and inserted; when all threads have left
\* the loop every frame is written.
C30_NothingLeftBehind ==
    variant = "openmp_v2" =>
        /\ (SentinelTaken \/ ~is_there_any_work) =>
              /\ SentinelTaken
              /\ size_input_work_queue = 0 /\ InputQueue = <<>>
              /\ ~is_there_any_frame /\ capture = M
              /\ pc[0] \notin {"m_ilock", "m_iadd"}
              /\ Cardinality(Payloads) = M
              /\ \A p \in Payloads : taken[p] = 1 /\ OnItsWay(p)
        /\ AllReturned => Len(display) = M

\* the sentinel is taken and is_there_any_work is false while another worker
\* still holds a payload node it has not transformed yet
C30_Witness ==
    /\ variant = "openmp_v2" /\ ~is_there_any_work
    /\ \E t \in Workers : /\ pc[t] = "w_proc"
                           /\ ~heap[node_aux[t]].is_the_last_node
                           /\ processed[node_aux[t]] = 0

\* the locks thread t holds
LocksHeld(t) ==
    {l \in {"input", "output", "capturar", "saida"} :
        CASE l = "input" -> input_work_queue_lock = t
          [] l = "output" -> output_work_queue_lock = t
          [] l = "capturar" -> lock_capturar_frame = t
          [] OTHER -> lock_da_fila_de_saida = t}

\* thread t is at a lock call (or has to re-acquire the mutex after a wait)
AtLockCall(t) ==
    pc[t] \in {"s1_lock", "s2_lock", "s2_olock", "s3_lock", "s3_wait1", "s3_wait2",
               "o_elock", "o_clock", "o_olock", "m_ilock", "m_elock", "w_ilock", "w_olock"}

\* C31: no thread holds two locks, and a thread that waits for or acquires a lock
\* holds none; a lock's holder is inside the section the lock guards and its next
\* step, which releases the lock (or waits on the condition, which releases it),
\* can always be taken: no thread is blocked on a lock that is never released.
C31_NoNestedLocks ==
    \A t \in Threads :
        /\ Cardinality(LocksHeld(t)) <= 1
        /\ AtLockCall(t) => LocksHeld(t) = {}
        /\ pc[t] \in {"unborn", "done"} => LocksHeld(t) = {}
        /\ input_work_queue_lock = t => InputAccess(t)
        /\ output_work_queue_lock = t => (OutputAccess(t) /\ variant # "openmp")
        /\ lock_da_fila_de_saida = t => (OutputAccess(t) /\ variant = "openmp")
        /\ lock_capturar_frame = t => pc[t] = "o_capture"
        /\ LocksHeld(t) # {} => ENABLED ThreadStep(t)

\* v2: a worker waits for the input lock, which the master holds, while another
\* worker holds the output lock
C31_Witness ==
    /\ variant = "openmp_v2" /\ threads_number = 2
    /\ input_work_queue_lock = 0
    /\ \E t, u \in Workers : /\ t # u /\ pc[t] = "w_ilock"
                              /\ output_work_queue_lock = u

\* the ids of the frames written so far
WrittenIds == {display[k].frame_number : k \in 1..Len(display)}

\* C32: in lane_detection_openmp_v2.cpp the checksum correctness printed when the
\* run ends is 1 + 2 + ... + M = M (M + 1) / 2, M being the number of frames
\* written: in a pipeline run that has stopped, and in a long run whose stream
\* ends after the frame just written.
C32_ChecksumIsSumOfIds ==
    /\ (variant = "openmp_v2" /\ RunStopped) => correctness = Triangular(M)
    /\ (variant = "checksum" /\ mainpc = "parallel") =>
          LET k == current_frame - 1 IN
          /\ correctness >= 0
          /\ IF k % 2 = 0
             THEN correctness % (k + 1) = 0 /\ correctness \div (k + 1) = k \div 2
             ELSE correctness % k = 0 /\ correctness \div k = (k + 1) \div 2

\* what does hold: as long as the sum fits in an int, every payload id is added
\* once, in id order, and no sentinel id is added
C32_ChecksumInRange ==
    variant = "openmp_v2" =>
        /\ correctness = Triangular(Len(display))
        /\ WrittenIds = 1..Len(display)
        /\ RunStopped => Len(display) = M

\* C33: when the run has stopped nframes, the numerator of the printed
\* frames-per-second figure, equals M, the number of non-empty frames read.
C33_NframesIsFrameCount ==
    (variant \in Variants /\ RunStopped) => nframes = M

\* what the code does instead: nframes is incremented for every read, the reads
\* that return an empty frame included, and starts at 1 in
\* lane_detection_openmp_v2.cpp; at the end it is M + 1 after stage_one, between
\* M + 1 and M + N in lane_detection_openmp.cpp and M + 2 in v2
C33_NframesCountsEveryRead ==
    variant \in Variants =>
        /\ nframes = source_reads + (IF variant = "openmp_v2" THEN 1 ELSE 0)
        /\ capture <= source_reads
        /\ RunStopped =>
              CASE variant = "pthread" -> nframes = M + 1
                [] variant = "openmp" -> nframes \in (M + 1)..(M + threads_number)
                [] OTHER -> nframes = M + 2

\* the queue q, of recorded size n and head h, is a proper list: n nodes are
\* reachable, all different, the last one has next = NULL, and the head is NULL
\* exactly when n = 0
ProperList(q, n, h) ==
    /\ n >= 0 /\ Len(q) = n
    /\ (n = 0) <=> (h = NULL)
    /\ \A j, k \in 1..Len(q) : q[j] = q[k] => j = k
    /\ q # <<>> => (q[1] = h /\ heap[q[Len(q)]].next = NULL)

\* C34: after any sequence of queue operations size_input_work_queue and
\* size_output_work_queue are the numbers of nodes reachable from input_head and
\* output_head through next, are never negative, are 0 exactly when the head is
\* NULL, and the last reachable node has next = NULL.
C34_SizesMatchLists ==
    /\ ProperList(InputQueue, size_input_work_queue, input_head)
    /\ ProperList(OutputQueue, size_output_work_queue, output_head)

\* a node was moved to the output queue and freed, two more are in the output
\* queue and one is in the input queue
C34_Witness ==
    /\ variant = "queues"
    /\ Len(freed) = 1 /\ size_output_work_queue = 2 /\ size_input_work_queue = 1

\* input_tail points to a node that has left the input queue
StaleTail == input_tail # NULL /\ Occurrences(InputQueue, input_tail) = 0

\* C35: whenever the input queue is non-empty input_tail is its last node, so
\* the non-empty branch of add_to_input_work_queue writes the next field of a
\* queued node only; remove_from_input_work_queue leaves input_tail as it is,
\* and when the queue is empty, where input_tail may point to a node that was
\* removed, an addition writes no existing node and sets head and tail afresh.
C35_TailNeverStale ==
    [][/\ (size_input_work_queue' > 0) =>
             /\ InputQueue' # <<>>
             /\ input_tail' = InputQueue'[Len(InputQueue')]
             /\ ~StaleTail'
       /\ (size_input_work_queue' < size_input_work_queue) => input_tail' = input_tail
       /\ (size_input_work_queue' > size_input_work_queue) =>
             /\ \A n \in Nodes :
                   (heap'[n] # heap[n]) =>
                       /\ size_input_work_queue > 0
                       /\ InputQueue # <<>>
                       /\ n = input_tail /\ n = InputQueue[Len(InputQueue)]
                       /\ taken[n] = 0
                       /\ heap'[n] = [heap[n] EXCEPT !.next = input_tail']
             /\ (size_input_work_queue = 0) =>
                   /\ input_head' = input_tail'
                   /\ Occurrences(InputQueue, input_tail') = 0
                   /\ taken'[input_tail'] = 0]_vars

\* the queue was emptied, leaving input_tail on a node that is now in the
\* output queue, then filled again with two nodes, the second one through the
\* non-empty branch
C35_Witness ==
    /\ variant = "queues" /\ refilled
    /\ size_input_work_queue = 2 /\ size_output_work_queue = 1
    /\ taken[1] = 1 /\ output_head = 1

====
